---- MODULE Spec2Model ----
(***************************************************************************)
(* Model of the Monitor110 analysis pipeline: retrieval, credibility       *)
(* scoring, deduplication, the relevance guardrail and the /analyze        *)
(* orchestrator with its summarizer collaborator.                          *)
(*                                                                         *)
(* Strings are sequences of one-character strings, so that the string      *)
(* operations of the source (toLowerCase, replace, split, includes,        *)
(* startsWith, regular-expression matching of a literal term) are          *)
(* computed and not assumed.                                               *)
(*                                                                         *)
(* Credibility scores are IEEE doubles in the source.  They are modelled   *)
(* in thousandths: a score whose double lies just below (above) the        *)
(* decimal value n/100 is 10n-1 (10n+1), so every comparison of the        *)
(* source has the outcome it has on doubles.  NaN is a separate value.     *)
(***************************************************************************)
EXTENDS Integers, Sequences, FiniteSets, TLC

VARIABLES
    pc,                \* position of the /analyze handler
    hasKey,            \* process.env.GROQ_API_KEY is set
    req,               \* req.body of the request in progress
    retrieved,         \* handler local: retrieveRelevantContent(...)
    credibleSources,   \* handler local: filterByCredibility(...)
    dedupedSources,    \* handler local: unique of deduplicateArticles
    duplicates,        \* handler local: duplicates of deduplicateArticles
    finalSources,      \* handler local: sorted, sliced final set
    relevanceResult,   \* handler local: evaluateRelevance(...)
    stages,            \* pipeline stages run for this request, in call order
    llmCalls,          \* calls of analyzeWithLLM in this request
    mockCalls,         \* calls of generateMockAnalysis in this request
    llmInput,          \* documents handed to the summarizer (real or mock)
    completion,        \* what became of the summarizer call of this request
    response,          \* the JSON body sent by res.json
    unit               \* inputs and outputs of a service function called directly

vars == << pc, hasKey, req, retrieved, credibleSources, dedupedSources,
           duplicates, finalSources, relevanceResult, stages, llmCalls,
           mockCalls, llmInput, completion, response, unit >>

-----------------------------------------------------------------------------
(* JavaScript strings                                                      *)

LowerOf ==
  [A |-> "a", B |-> "b", C |-> "c", D |-> "d", E |-> "e", F |-> "f",
   G |-> "g", H |-> "h", I |-> "i", J |-> "j", K |-> "k", L |-> "l",
   M |-> "m", N |-> "n", O |-> "o", P |-> "p", Q |-> "q", R |-> "r",
   S |-> "s", T |-> "t", U |-> "u", V |-> "v", W |-> "w", X |-> "x",
   Y |-> "y", Z |-> "z"]

UpperOf ==
  [a |-> "A", b |-> "B", c |-> "C", d |-> "D", e |-> "E", f |-> "F",
   g |-> "G", h |-> "H", i |-> "I", j |-> "J", k |-> "K", l |-> "L",
   m |-> "M", n |-> "N", o |-> "O", p |-> "P", q |-> "Q", r |-> "R",
   s |-> "S", t |-> "T", u |-> "U", v |-> "V", w |-> "W", x |-> "X",
   y |-> "Y", z |-> "Z"]

Digits == {"0", "1", "2", "3", "4", "5", "6", "7", "8", "9"}

\* \w of a JavaScript regular expression
IsWordChar(c) == c \in DOMAIN LowerOf \/ c \in DOMAIN UpperOf \/ c \in Digits \/ c = "_"

\* \s of a JavaScript regular expression (the model's texts use the space only)
IsSpace(c) == c = " "

toLowerCase(s) == [i \in 1..Len(s) |-> IF s[i] \in DOMAIN LowerOf THEN LowerOf[s[i]] ELSE s[i]]

toUpperCase(s) == [i \in 1..Len(s) |-> IF s[i] \in DOMAIN UpperOf THEN UpperOf[s[i]] ELSE s[i]]

\* s.replace(/[^\w\s]/g, r) with r a string of length 0 or 1
replaceNonWord(s, r) ==
  LET Kept(c) == IsWordChar(c) \/ IsSpace(c)
  IN  IF r = << >> THEN SelectSeq(s, Kept)
      ELSE [i \in 1..Len(s) |-> IF Kept(s[i]) THEN s[i] ELSE r[1]]

\* s.trim()
RECURSIVE trim(_)
trim(s) ==
  IF s = << >> THEN s
  ELSE IF IsSpace(s[1]) THEN trim(Tail(s))
  ELSE IF IsSpace(s[Len(s)]) THEN trim(SubSeq(s, 1, Len(s) - 1))
  ELSE s

\* s.split(/\s+/): the pieces between maximal runs of whitespace; a leading
\* or trailing run yields an empty first or last piece, and "" yields [""]
wordStarts(s) == {i \in 1..Len(s) : ~ IsSpace(s[i]) /\ (i = 1 \/ IsSpace(s[i - 1]))}

\* the last position of the run of non-whitespace that starts at i
wordEnd(s, i) ==
  CHOOSE j \in i..Len(s) :
     /\ j = Len(s) \/ IsSpace(s[j + 1])
     /\ \A k \in (i + 1)..j : ~ IsSpace(s[k])

nthStart(starts, n) == CHOOSE i \in starts : Cardinality({j \in starts : j < i}) = n - 1

wordsFrom(s, starts) ==
  [n \in 1..Cardinality(starts) |->
     SubSeq(s, nthStart(starts, n), wordEnd(s, nthStart(starts, n)))]

emptyPieceAt(c) == IF IsSpace(c) THEN << << >> >> ELSE << >>

splitWhitespace(s) ==
  IF s = << >> THEN << << >> >>
  ELSE emptyPieceAt(s[1]) \o wordsFrom(s, wordStarts(s)) \o emptyPieceAt(s[Len(s)])

\* h.startsWith(n) at offset i (0-based)
MatchesAt(h, n, i) == i + Len(n) <= Len(h) /\ \A j \in 1..Len(n) : h[i + j] = n[j]

includes(h, n) == \E i \in 0..(Len(h) - Len(n)) : MatchesAt(h, n, i)

startsWith(h, n) == MatchesAt(h, n, 0)

\* h.match(new RegExp(n, 'gi')) for a term n without metacharacters: the
\* number of non-overlapping case-insensitive occurrences, scanned left to right
matchesFrom(h, n, i) == \E j \in i..(Len(h) - Len(n)) : MatchesAt(h, n, j)

\* the offset of the first occurrence at or after offset i
nextMatch(h, n, i) ==
  CHOOSE j \in i..(Len(h) - Len(n)) :
     MatchesAt(h, n, j) /\ \A k \in i..(j - 1) : ~ MatchesAt(h, n, k)

RECURSIVE countFrom(_, _, _)
countFrom(h, n, i) ==
  IF matchesFrom(h, n, i) THEN 1 + countFrom(h, n, nextMatch(h, n, i) + Len(n)) ELSE 0

matchCount(h, n) == IF n = << >> THEN Len(h) + 1 ELSE countFrom(toLowerCase(h), toLowerCase(n), 0)

\* Array.prototype.join
RECURSIVE join(_, _)
join(a, sep) ==
  IF a = << >> THEN << >>
  ELSE IF Len(a) = 1 THEN a[1]
  ELSE a[1] \o sep \o join(Tail(a), sep)

\* Array.prototype.filter, includes
filter(a, Keep(_)) == SelectSeq(a, Keep)

arrIncludes(a, x) == \E i \in 1..Len(a) : a[i] = x

Range(a) == {a[i] : i \in 1..Len(a)}

\* Array.prototype.slice(0, end) for an integer end, negative ends included
slice0(a, end) ==
  LET k == IF end < 0 THEN (IF Len(a) + end < 0 THEN 0 ELSE Len(a) + end)
           ELSE (IF end > Len(a) THEN Len(a) ELSE end)
  IN  SubSeq(a, 1, k)

\* a value that may be undefined: given with a value, or left out
Given(v) == [given |-> TRUE, value |-> v]
LeftOut(v) == [given |-> FALSE, value |-> v]

-----------------------------------------------------------------------------
(* Lookup tables of the relevance service and the retrieval service        *)

KNOWN_ENTITIES ==
  << [entity |-> <<"a","p","p","l","e">>,
      variations |-> << <<"a","p","p","l","e">>, <<"a","a","p","l">>, <<"i","p","h","o","n","e">>, <<"i","p","a","d">>, <<"m","a","c">>, <<"t","i","m"," ","c","o","o","k">>, <<"c","u","p","e","r","t","i","n","o">>, <<"v","i","s","i","o","n"," ","p","r","o">> >>],
     [entity |-> <<"m","i","c","r","o","s","o","f","t">>,
      variations |-> << <<"m","i","c","r","o","s","o","f","t">>, <<"m","s","f","t">>, <<"a","z","u","r","e">>, <<"w","i","n","d","o","w","s">>, <<"s","a","t","y","a"," ","n","a","d","e","l","l","a">>, <<"c","o","p","i","l","o","t">>, <<"x","b","o","x">> >>],
     [entity |-> <<"t","e","s","l","a">>,
      variations |-> << <<"t","e","s","l","a">>, <<"t","s","l","a">>, <<"e","l","o","n"," ","m","u","s","k">>, <<"c","y","b","e","r","t","r","u","c","k">>, <<"f","s","d">>, <<"g","i","g","a","f","a","c","t","o","r","y">>, <<"s","u","p","e","r","c","h","a","r","g","e","r">> >>],
     [entity |-> <<"n","v","i","d","i","a">>,
      variations |-> << <<"n","v","i","d","i","a">>, <<"n","v","d","a">>, <<"j","e","n","s","e","n"," ","h","u","a","n","g">>, <<"g","p","u">>, <<"c","u","d","a">>, <<"h","1","0","0">>, <<"h","2","0","0">>, <<"g","e","f","o","r","c","e">> >>],
     [entity |-> <<"g","o","o","g","l","e">>,
      variations |-> << <<"g","o","o","g","l","e">>, <<"g","o","o","g","l">>, <<"a","l","p","h","a","b","e","t">>, <<"s","u","n","d","a","r"," ","p","i","c","h","a","i">>, <<"a","n","d","r","o","i","d">>, <<"c","h","r","o","m","e">> >>],
     [entity |-> <<"a","m","a","z","o","n">>,
      variations |-> << <<"a","m","a","z","o","n">>, <<"a","m","z","n">>, <<"a","w","s">>, <<"b","e","z","o","s">>, <<"p","r","i","m","e">> >>],
     [entity |-> <<"m","e","t","a">>,
      variations |-> << <<"m","e","t","a">>, <<"f","a","c","e","b","o","o","k">>, <<"z","u","c","k","e","r","b","e","r","g">>, <<"i","n","s","t","a","g","r","a","m">>, <<"w","h","a","t","s","a","p","p">> >>],
     [entity |-> <<"r","e","l","i","a","n","c","e">>,
      variations |-> << <<"r","e","l","i","a","n","c","e">>, <<"j","i","o">>, <<"m","u","k","e","s","h"," ","a","m","b","a","n","i">>, <<"r","i","l">> >>],
     [entity |-> <<"t","a","t","a">>,
      variations |-> << <<"t","a","t","a">>, <<"t","a","t","a"," ","m","o","t","o","r","s">>, <<"t","a","t","a"," ","g","r","o","u","p">>, <<"r","a","t","a","n"," ","t","a","t","a">>, <<"t","c","s">>, <<"t","a","t","a"," ","p","o","w","e","r">> >>],
     [entity |-> <<"i","n","f","o","s","y","s">>,
      variations |-> << <<"i","n","f","o","s","y","s">>, <<"i","n","f","y">>, <<"s","a","l","i","l"," ","p","a","r","e","k","h">>, <<"i","n","f","o","s","y","s"," ","t","e","c","h","n","o","l","o","g","i","e","s">> >>],
     [entity |-> <<"t","c","s">>,
      variations |-> << <<"t","c","s">>, <<"t","a","t","a"," ","c","o","n","s","u","l","t","a","n","c","y">>, <<"t","a","t","a"," ","c","o","n","s","u","l","t","i","n","g">> >>],
     [entity |-> <<"h","d","f","c">>,
      variations |-> << <<"h","d","f","c">>, <<"h","d","f","c"," ","b","a","n","k">>, <<"h","o","u","s","i","n","g"," ","d","e","v","e","l","o","p","m","e","n","t"," ","f","i","n","a","n","c","e">> >>],
     [entity |-> <<"i","c","i","c","i">>,
      variations |-> << <<"i","c","i","c","i">>, <<"i","c","i","c","i"," ","b","a","n","k">> >>],
     [entity |-> <<"b","y","d">>,
      variations |-> << <<"b","y","d">>, <<"b","u","i","l","d"," ","y","o","u","r"," ","d","r","e","a","m","s">> >>],
     [entity |-> <<"n","i","o">>,
      variations |-> << <<"n","i","o">>, <<"n","i","o"," ","i","n","c">> >>],
     [entity |-> <<"r","i","v","i","a","n">>,
      variations |-> << <<"r","i","v","i","a","n">>, <<"r","i","v","n">> >>],
     [entity |-> <<"o","l","a">>,
      variations |-> << <<"o","l","a">>, <<"o","l","a"," ","e","l","e","c","t","r","i","c">>, <<"b","h","a","v","i","s","h"," ","a","g","g","a","r","w","a","l">> >>],
     [entity |-> <<"a","t","h","e","r">>,
      variations |-> << <<"a","t","h","e","r">>, <<"a","t","h","e","r"," ","e","n","e","r","g","y">> >>],
     [entity |-> <<"b","i","t","c","o","i","n">>,
      variations |-> << <<"b","i","t","c","o","i","n">>, <<"b","t","c">>, <<"s","a","t","o","s","h","i">>, <<"b","t","c"," ","e","t","f">>, <<"s","p","o","t"," ","e","t","f">> >>],
     [entity |-> <<"e","t","h","e","r","e","u","m">>,
      variations |-> << <<"e","t","h","e","r","e","u","m">>, <<"e","t","h">>, <<"e","t","h","e","r">>, <<"v","i","t","a","l","i","k">>, <<"e","t","h","2">> >>],
     [entity |-> <<"c","r","y","p","t","o">>,
      variations |-> << <<"c","r","y","p","t","o">>, <<"c","r","y","p","t","o","c","u","r","r","e","n","c","y">>, <<"b","l","o","c","k","c","h","a","i","n">>, <<"d","e","f","i">>, <<"w","e","b","3">> >>],
     [entity |-> <<"b","a","n","k","i","n","g">>,
      variations |-> << <<"b","a","n","k">>, <<"b","a","n","k","i","n","g">>, <<"r","b","i">>, <<"i","n","t","e","r","e","s","t"," ","r","a","t","e">>, <<"r","e","p","o"," ","r","a","t","e">>, <<"m","o","n","e","t","a","r","y"," ","p","o","l","i","c","y">>, <<"n","p","a">>, <<"c","r","e","d","i","t"," ","g","r","o","w","t","h">> >>],
     [entity |-> <<"r","b","i">>,
      variations |-> << <<"r","b","i">>, <<"r","e","s","e","r","v","e"," ","b","a","n","k">>, <<"r","e","p","o">>, <<"m","o","n","e","t","a","r","y">> >>],
     [entity |-> <<"s","b","i">>,
      variations |-> << <<"s","b","i">>, <<"s","t","a","t","e"," ","b","a","n","k">> >>],
     [entity |-> <<"f","e","d">>,
      variations |-> << <<"f","e","d">>, <<"f","e","d","e","r","a","l"," ","r","e","s","e","r","v","e">>, <<"f","o","m","c">>, <<"p","o","w","e","l","l">> >>],
     [entity |-> <<"j","p","m","o","r","g","a","n">>,
      variations |-> << <<"j","p","m","o","r","g","a","n">>, <<"j","p","m">>, <<"j","p"," ","m","o","r","g","a","n">>, <<"j","a","m","i","e"," ","d","i","m","o","n">> >>],
     [entity |-> <<"c","o","m","m","o","d","i","t","i","e","s">>,
      variations |-> << <<"c","o","m","m","o","d","i","t","y">>, <<"c","o","m","m","o","d","i","t","i","e","s">> >>],
     [entity |-> <<"o","i","l">>,
      variations |-> << <<"o","i","l">>, <<"c","r","u","d","e">>, <<"b","r","e","n","t">>, <<"w","t","i">>, <<"o","p","e","c">>, <<"p","e","t","r","o","l","e","u","m">> >>],
     [entity |-> <<"g","o","l","d">>,
      variations |-> << <<"g","o","l","d">>, <<"b","u","l","l","i","o","n">>, <<"p","r","e","c","i","o","u","s"," ","m","e","t","a","l">> >>],
     [entity |-> <<"s","i","l","v","e","r">>,
      variations |-> << <<"s","i","l","v","e","r">> >>],
     [entity |-> <<"c","o","p","p","e","r">>,
      variations |-> << <<"c","o","p","p","e","r">> >>],
     [entity |-> <<"g","a","s">>,
      variations |-> << <<"n","a","t","u","r","a","l"," ","g","a","s">>, <<"l","n","g">>, <<"g","a","s"," ","p","r","i","c","e","s">> >>],
     [entity |-> <<"e","n","e","r","g","y">>,
      variations |-> << <<"e","n","e","r","g","y">>, <<"p","o","w","e","r">>, <<"e","l","e","c","t","r","i","c","i","t","y">>, <<"g","r","i","d">>, <<"u","t","i","l","i","t","y">> >>],
     [entity |-> <<"s","o","l","a","r">>,
      variations |-> << <<"s","o","l","a","r">>, <<"p","h","o","t","o","v","o","l","t","a","i","c">>, <<"p","v">> >>],
     [entity |-> <<"w","i","n","d">>,
      variations |-> << <<"w","i","n","d"," ","p","o","w","e","r">>, <<"w","i","n","d"," ","e","n","e","r","g","y">>, <<"w","i","n","d"," ","t","u","r","b","i","n","e">> >>],
     [entity |-> <<"r","e","n","e","w","a","b","l","e">>,
      variations |-> << <<"r","e","n","e","w","a","b","l","e">>, <<"c","l","e","a","n"," ","e","n","e","r","g","y">>, <<"g","r","e","e","n"," ","e","n","e","r","g","y">> >>],
     [entity |-> <<"h","y","d","r","o","g","e","n">>,
      variations |-> << <<"h","y","d","r","o","g","e","n">>, <<"g","r","e","e","n"," ","h","y","d","r","o","g","e","n">>, <<"e","l","e","c","t","r","o","l","y","z","e","r">> >>],
     [entity |-> <<"a","d","a","n","i">>,
      variations |-> << <<"a","d","a","n","i">>, <<"a","d","a","n","i"," ","g","r","e","e","n">>, <<"a","d","a","n","i"," ","p","o","w","e","r">> >>],
     [entity |-> <<"h","e","a","l","t","h","c","a","r","e">>,
      variations |-> << <<"h","e","a","l","t","h","c","a","r","e">>, <<"h","e","a","l","t","h"," ","c","a","r","e">>, <<"h","o","s","p","i","t","a","l">>, <<"m","e","d","i","c","a","l">> >>],
     [entity |-> <<"p","h","a","r","m","a">>,
      variations |-> << <<"p","h","a","r","m","a">>, <<"p","h","a","r","m","a","c","e","u","t","i","c","a","l">>, <<"d","r","u","g">>, <<"m","e","d","i","c","i","n","e">>, <<"f","d","a">> >>],
     [entity |-> <<"b","i","o","c","o","n">>,
      variations |-> << <<"b","i","o","c","o","n">> >>],
     [entity |-> <<"s","u","n","p","h","a","r","m","a">>,
      variations |-> << <<"s","u","n"," ","p","h","a","r","m","a">>, <<"s","u","n","p","h","a","r","m","a">>, <<"s","u","n"," ","p","h","a","r","m","a","c","e","u","t","i","c","a","l">> >>],
     [entity |-> <<"a","p","o","l","l","o">>,
      variations |-> << <<"a","p","o","l","l","o">>, <<"a","p","o","l","l","o"," ","h","o","s","p","i","t","a","l","s">> >>],
     [entity |-> <<"d","r","r","e","d","d","y">>,
      variations |-> << <<"d","r"," ","r","e","d","d","y">>, <<"d","r","r","e","d","d","y">>, <<"d","r","."," ","r","e","d","d","y">> >>],
     [entity |-> <<"e","v">>,
      variations |-> << <<"e","v">>, <<"e","l","e","c","t","r","i","c"," ","v","e","h","i","c","l","e">>, <<"e","l","e","c","t","r","i","c"," ","c","a","r">>, <<"e","l","e","c","t","r","i","c"," ","s","c","o","o","t","e","r">>, <<"b","a","t","t","e","r","y">>, <<"c","h","a","r","g","i","n","g">> >>],
     [entity |-> <<"a","u","t","o">>,
      variations |-> << <<"a","u","t","o">>, <<"a","u","t","o","m","o","b","i","l","e">>, <<"c","a","r"," ","s","a","l","e","s">>, <<"v","e","h","i","c","l","e">>, <<"a","u","t","o","m","o","t","i","v","e">>, <<"c","a","r"," ","m","a","r","k","e","t">> >>],
     [entity |-> <<"a","i">>,
      variations |-> << <<"a","i">>, <<"a","r","t","i","f","i","c","i","a","l"," ","i","n","t","e","l","l","i","g","e","n","c","e">>, <<"m","a","c","h","i","n","e"," ","l","e","a","r","n","i","n","g">>, <<"l","l","m">>, <<"c","h","a","t","g","p","t">>, <<"g","e","n","e","r","a","t","i","v","e">> >>],
     [entity |-> <<"c","l","o","u","d">>,
      variations |-> << <<"c","l","o","u","d">>, <<"a","z","u","r","e">>, <<"a","w","s">>, <<"s","a","a","s">>, <<"d","a","t","a"," ","c","e","n","t","e","r">> >>],
     [entity |-> <<"e","a","r","n","i","n","g","s">>,
      variations |-> << <<"e","a","r","n","i","n","g","s">>, <<"r","e","v","e","n","u","e">>, <<"p","r","o","f","i","t">>, <<"q","1">>, <<"q","2">>, <<"q","3">>, <<"q","4">>, <<"q","u","a","r","t","e","r","l","y">>, <<"f","i","s","c","a","l">> >>],
     [entity |-> <<"s","t","o","c","k">>,
      variations |-> << <<"s","t","o","c","k">>, <<"s","h","a","r","e","s">>, <<"m","a","r","k","e","t"," ","c","a","p">>, <<"v","a","l","u","a","t","i","o","n">>, <<"p","r","i","c","e"," ","t","a","r","g","e","t">>, <<"i","p","o">> >>],
     [entity |-> <<"m","a","r","k","e","t","s">>,
      variations |-> << <<"s","e","n","s","e","x">>, <<"n","i","f","t","y">>, <<"b","s","e">>, <<"n","s","e">>, <<"f","i","i">>, <<"m","a","r","k","e","t">>, <<"i","n","d","e","x">> >>],
     [entity |-> <<"i","n","d","i","a">>,
      variations |-> << <<"i","n","d","i","a">>, <<"i","n","d","i","a","n">>, <<"r","u","p","e","e">>, <<"i","n","r">>, <<"s","e","b","i">> >>],
     [entity |-> <<"f","i","n","a","n","c","e">>,
      variations |-> << <<"f","i","n","a","n","c","e">>, <<"f","i","n","a","n","c","i","a","l">>, <<"f","i","n","t","e","c","h">>, <<"p","a","y","m","e","n","t">> >>],
     [entity |-> <<"s","e","m","i","c","o","n","d","u","c","t","o","r">>,
      variations |-> << <<"s","e","m","i","c","o","n","d","u","c","t","o","r">>, <<"c","h","i","p">>, <<"c","h","i","p","s">>, <<"t","s","m","c">>, <<"f","o","u","n","d","r","y">>, <<"f","a","b">> >>] >>

OFF_TOPIC_INDICATORS ==
  << <<"r","e","a","l"," ","e","s","t","a","t","e">>,
     <<"p","r","o","p","e","r","t","y">>,
     <<"m","o","r","t","g","a","g","e">>,
     <<"r","e","n","t">>,
     <<"r","e","t","a","i","l">>,
     <<"f","a","s","h","i","o","n">>,
     <<"l","u","x","u","r","y">>,
     <<"a","p","p","a","r","e","l">>,
     <<"c","l","o","t","h","i","n","g">>,
     <<"a","g","r","i","c","u","l","t","u","r","e">>,
     <<"f","a","r","m","i","n","g">>,
     <<"f","o","o","d">>,
     <<"c","r","o","p">>,
     <<"m","o","v","i","e">>,
     <<"c","i","n","e","m","a">>,
     <<"b","o","l","l","y","w","o","o","d">>,
     <<"h","o","l","l","y","w","o","o","d">>,
     <<"s","p","o","r","t","s">>,
     <<"f","o","o","t","b","a","l","l">>,
     <<"c","r","i","c","k","e","t">>,
     <<"o","l","y","m","p","i","c","s">>,
     <<"y","o","u","t","u","b","e">>,
     <<"e","n","t","e","r","t","a","i","n","m","e","n","t">>,
     <<"t","r","a","v","e","l">>,
     <<"t","o","u","r","i","s","m">>,
     <<"h","o","t","e","l">>,
     <<"a","i","r","l","i","n","e">>,
     <<"f","l","i","g","h","t">>,
     <<"w","e","a","t","h","e","r">>,
     <<"r","e","c","i","p","e">>,
     <<"c","o","o","k","i","n","g">>,
     <<"g","a","m","i","n","g">>,
     <<"v","i","d","e","o"," ","g","a","m","e">> >>

companyAliases ==
  << [alias |-> <<"a","p","p","l","e">>, ticker |-> <<"A","A","P","L">>],
     [alias |-> <<"m","i","c","r","o","s","o","f","t">>, ticker |-> <<"M","S","F","T">>],
     [alias |-> <<"t","e","s","l","a">>, ticker |-> <<"T","S","L","A">>],
     [alias |-> <<"n","v","i","d","i","a">>, ticker |-> <<"N","V","D","A">>],
     [alias |-> <<"g","o","o","g","l","e">>, ticker |-> <<"G","O","O","G","L">>],
     [alias |-> <<"a","m","a","z","o","n">>, ticker |-> <<"A","M","Z","N">>],
     [alias |-> <<"m","e","t","a">>, ticker |-> <<"M","E","T","A">>],
     [alias |-> <<"r","e","l","i","a","n","c","e">>, ticker |-> <<"R","E","L","I","A","N","C","E">>],
     [alias |-> <<"t","a","t","a">>, ticker |-> <<"T","A","T","A">>],
     [alias |-> <<"t","c","s">>, ticker |-> <<"T","C","S">>],
     [alias |-> <<"i","n","f","o","s","y","s">>, ticker |-> <<"I","N","F","Y">>],
     [alias |-> <<"h","d","f","c">>, ticker |-> <<"H","D","F","C">>],
     [alias |-> <<"i","c","i","c","i">>, ticker |-> <<"I","C","I","C","I">>],
     [alias |-> <<"b","y","d">>, ticker |-> <<"B","Y","D">>],
     [alias |-> <<"n","i","o">>, ticker |-> <<"N","I","O">>],
     [alias |-> <<"r","i","v","i","a","n">>, ticker |-> <<"R","I","V","N">>],
     [alias |-> <<"o","l","a">>, ticker |-> <<"O","L","A">>],
     [alias |-> <<"a","t","h","e","r">>, ticker |-> <<"A","T","H","E","R">>],
     [alias |-> <<"b","i","t","c","o","i","n">>, ticker |-> <<"B","T","C">>],
     [alias |-> <<"e","t","h","e","r","e","u","m">>, ticker |-> <<"E","T","H">>],
     [alias |-> <<"c","r","y","p","t","o">>, ticker |-> <<"C","R","Y","P","T","O">>],
     [alias |-> <<"b","l","o","c","k","c","h","a","i","n">>, ticker |-> <<"B","L","O","C","K","C","H","A","I","N">>],
     [alias |-> <<"r","b","i">>, ticker |-> <<"R","B","I">>],
     [alias |-> <<"s","b","i">>, ticker |-> <<"S","B","I">>],
     [alias |-> <<"b","a","n","k">>, ticker |-> <<"B","A","N","K","S">>],
     [alias |-> <<"b","a","n","k","i","n","g">>, ticker |-> <<"B","A","N","K","S">>],
     [alias |-> <<"i","n","t","e","r","e","s","t">>, ticker |-> <<"B","A","N","K","S">>],
     [alias |-> <<"r","e","p","o">>, ticker |-> <<"R","B","I">>],
     [alias |-> <<"i","n","f","l","a","t","i","o","n">>, ticker |-> <<"B","A","N","K","S">>],
     [alias |-> <<"f","e","d">>, ticker |-> <<"F","E","D">>],
     [alias |-> <<"c","r","e","d","i","t">>, ticker |-> <<"B","A","N","K","S">>],
     [alias |-> <<"l","o","a","n">>, ticker |-> <<"B","A","N","K","S">>],
     [alias |-> <<"j","p","m","o","r","g","a","n">>, ticker |-> <<"J","P","M">>],
     [alias |-> <<"o","i","l">>, ticker |-> <<"O","I","L">>],
     [alias |-> <<"c","r","u","d","e">>, ticker |-> <<"C","R","U","D","E">>],
     [alias |-> <<"g","o","l","d">>, ticker |-> <<"G","O","L","D">>],
     [alias |-> <<"s","i","l","v","e","r">>, ticker |-> <<"S","I","L","V","E","R">>],
     [alias |-> <<"c","o","p","p","e","r">>, ticker |-> <<"C","O","P","P","E","R">>],
     [alias |-> <<"c","o","m","m","o","d","i","t","y">>, ticker |-> <<"C","O","M","M","O","D","I","T","I","E","S">>],
     [alias |-> <<"c","o","m","m","o","d","i","t","i","e","s">>, ticker |-> <<"C","O","M","M","O","D","I","T","I","E","S">>],
     [alias |-> <<"o","p","e","c">>, ticker |-> <<"O","I","L">>],
     [alias |-> <<"g","a","s">>, ticker |-> <<"G","A","S">>],
     [alias |-> <<"p","o","w","e","r">>, ticker |-> <<"P","O","W","E","R">>],
     [alias |-> <<"s","o","l","a","r">>, ticker |-> <<"S","O","L","A","R">>],
     [alias |-> <<"r","e","n","e","w","a","b","l","e">>, ticker |-> <<"R","E","N","E","W","A","B","L","E">>],
     [alias |-> <<"w","i","n","d">>, ticker |-> <<"W","I","N","D">>],
     [alias |-> <<"e","n","e","r","g","y">>, ticker |-> <<"E","N","E","R","G","Y">>],
     [alias |-> <<"h","y","d","r","o","g","e","n">>, ticker |-> <<"H","Y","D","R","O","G","E","N">>],
     [alias |-> <<"b","a","t","t","e","r","y">>, ticker |-> <<"B","A","T","T","E","R","Y">>],
     [alias |-> <<"g","r","i","d">>, ticker |-> <<"E","N","E","R","G","Y">>],
     [alias |-> <<"a","d","a","n","i">>, ticker |-> <<"A","D","A","N","I">>],
     [alias |-> <<"p","h","a","r","m","a">>, ticker |-> <<"P","H","A","R","M","A">>],
     [alias |-> <<"h","e","a","l","t","h","c","a","r","e">>, ticker |-> <<"H","E","A","L","T","H","C","A","R","E">>],
     [alias |-> <<"d","r","u","g">>, ticker |-> <<"P","H","A","R","M","A">>],
     [alias |-> <<"f","d","a">>, ticker |-> <<"P","H","A","R","M","A">>],
     [alias |-> <<"b","i","o","c","o","n">>, ticker |-> <<"B","I","O","C","O","N">>],
     [alias |-> <<"s","u","n","p","h","a","r","m","a">>, ticker |-> <<"S","U","N","P","H","A","R","M","A">>],
     [alias |-> <<"a","p","o","l","l","o">>, ticker |-> <<"A","P","O","L","L","O">>],
     [alias |-> <<"h","o","s","p","i","t","a","l">>, ticker |-> <<"H","E","A","L","T","H","C","A","R","E">>],
     [alias |-> <<"e","v">>, ticker |-> <<"E","V">>],
     [alias |-> <<"a","u","t","o","m","o","b","i","l","e">>, ticker |-> <<"A","U","T","O">>],
     [alias |-> <<"s","e","m","i","c","o","n","d","u","c","t","o","r">>, ticker |-> <<"C","H","I","P","S">>],
     [alias |-> <<"m","s","f","t">>, ticker |-> <<"M","S","F","T">>],
     [alias |-> <<"a","a","p","l">>, ticker |-> <<"A","A","P","L">>],
     [alias |-> <<"t","s","l","a">>, ticker |-> <<"T","S","L","A">>],
     [alias |-> <<"n","v","d","a">>, ticker |-> <<"N","V","D","A">>],
     [alias |-> <<"g","o","o","g","l">>, ticker |-> <<"G","O","O","G","L">>],
     [alias |-> <<"a","m","z","n">>, ticker |-> <<"A","M","Z","N">>],
     [alias |-> <<"b","t","c">>, ticker |-> <<"B","T","C">>],
     [alias |-> <<"e","t","h">>, ticker |-> <<"E","T","H">>] >>
-----------------------------------------------------------------------------
(* The corpus (data/financial-content.json) and the requests of the model  *)

Corpus ==
  << [id |-> 1,
      headline |-> <<"A","p","p","l","e"," ","R","e","p","o","r","t","s"," ","R","e","c","o","r","d"," ","Q","4"," ","E","a","r","n","i","n","g","s">>,
      content |-> <<"A","p","p","l","e"," ","r","e","v","e","n","u","e"," ","g","r","e","w"," ","o","n"," ","s","t","r","o","n","g"," ","i","P","h","o","n","e"," ","s","a","l","e","s">>,
      source |-> "Apple Investor Relations", sourceType |-> "official",
      companies |-> << <<"A","A","P","L">> >>,
      sector |-> <<"T","e","c","h","n","o","l","o","g","y">>],
     [id |-> 2,
      headline |-> <<"A","p","p","l","e"," ","R","e","p","o","r","t","s"," ","R","e","c","o","r","d"," ","Q","4"," ","E","a","r","n","i","n","g","s">>,
      content |-> <<"A","p","p","l","e"," ","r","e","v","e","n","u","e"," ","g","r","e","w"," ","o","n"," ","s","t","r","o","n","g"," ","i","P","h","o","n","e"," ","d","e","m","a","n","d">>,
      source |-> "Bloomberg", sourceType |-> "major_publication",
      companies |-> << <<"A","A","P","L">> >>,
      sector |-> <<"T","e","c","h","n","o","l","o","g","y">>],
     [id |-> 3,
      headline |-> <<"T","e","s","l","a"," ","C","y","b","e","r","t","r","u","c","k"," ","l","a","u","n","c","h">>,
      content |-> <<"d","e","l","a","y","e","d">>,
      source |-> "Electrek", sourceType |-> "official",
      companies |-> << <<"T","S","L","A">> >>,
      sector |-> <<"E","V">>],
     [id |-> 4,
      headline |-> <<"T","e","s","l","a"," ","C","y","b","e","r","t","r","u","c","k"," ","l","a","u","n","c","h">>,
      content |-> <<"c","o","n","f","i","r","m","e","d">>,
      source |-> "@elonmusk", sourceType |-> "social_media",
      companies |-> << <<"T","S","L","A">> >>,
      sector |-> <<"E","V">>],
     [id |-> 5,
      headline |-> <<"M","a","r","k","e","t"," ","t","r","e","n","d","s"," ","o","u","t","l","o","o","k">>,
      content |-> <<"a","n","a","l","y","s","t","s"," ","w","a","t","c","h"," ","c","h","i","p"," ","d","e","m","a","n","d">>,
      source |-> "Morgan Stanley", sourceType |-> "analyst",
      companies |-> << <<"A","C","M","E">> >>,
      sector |-> <<"R","e","t","a","i","l">>] >>

DocIds == {Corpus[i].id : i \in 1..Len(Corpus)}

Article(id) == Corpus[CHOOSE i \in 1..Len(Corpus) : Corpus[i].id = id]

\* a field the JSON body or an article does not carry
Undefined == "undefined"

-----------------------------------------------------------------------------
(* Credibility service                                                     *)

\* a double that is not a number
NaN == -1000000

\* own properties of the object literal CREDIBILITY_SCORES, in thousandths
CREDIBILITY_SCORES ==
  [official |-> 950, major_publication |-> 850, analyst |-> 750,
   social_media |-> 400, unknown |-> 300]

\* own properties of the object literal SOURCE_ADJUSTMENTS, in thousandths
SOURCE_ADJUSTMENTS ==
  ("Bloomberg" :> 50) @@ ("Reuters" :> 50) @@ ("Financial Times" :> 50) @@
  ("Apple Investor Relations" :> 50) @@ ("Microsoft Blog" :> 30) @@
  ("NVIDIA Investor Relations" :> 50) @@ ("Tesla IR" :> 50) @@
  ("TechCrunch" :> -100) @@ ("DigiTimes" :> -150) @@ ("Electrek" :> -50) @@
  ("@elonmusk" :> 100) @@ ("@mingchikuo" :> 50) @@ ("Reddit r/teslamotors" :> -100)

\* properties every object literal inherits from Object.prototype
ObjectPrototypeKeys ==
  {"constructor", "toString", "toLocaleString", "valueOf", "hasOwnProperty",
   "isPrototypeOf", "propertyIsEnumerable", "__proto__"}

\* obj[key] of an object literal whose own properties are numbers: the number,
\* an inherited function or object, or undefined
GetProperty(obj, key) ==
  IF key \in DOMAIN obj THEN [kind |-> "number", n |-> obj[key]]
  ELSE IF key \in ObjectPrototypeKeys THEN [kind |-> "object", n |-> 0]
  ELSE [kind |-> "undefined", n |-> 0]

\* v || d for a property value v and a number d
OrElse(v, d) ==
  IF v.kind = "undefined" \/ (v.kind = "number" /\ v.n = 0) THEN [kind |-> "number", n |-> d]
  ELSE v

\* rounding of the double sum a + b against the double of the decimal a + b,
\* for the values of the two tables (0: the same double, -1: the double just
\* below, 1: the double just above)
FloatAddError(a, b) ==
  CASE a = 950 /\ b \in {-150, -50} -> -1
    [] a = 850 /\ b = -50 -> -1
    [] a = 400 /\ b \in {30, -100, -50} -> 1
    [] a = 300 /\ b \in {30, -100} -> -1
    [] OTHER -> 0

\* Math.min(1.0, Math.max(0.1, a + b)); + on a function or object is string
\* concatenation, and Math.max of that string is NaN
ClampedSum(a, b) ==
  IF a.kind # "number" \/ b.kind # "number" THEN NaN
  ELSE LET sum == a.n + b.n + FloatAddError(a.n, b.n)
       IN  IF sum < 100 THEN 100 ELSE IF sum > 1000 THEN 1000 ELSE sum

\* x >= y on doubles
GreaterEq(x, y) == x # NaN /\ y # NaN /\ x >= y

HIGH_THRESHOLD == 900
MEDIUM_THRESHOLD == 700
LOW_THRESHOLD == 500

credibilityTier(finalScore) ==
  IF GreaterEq(finalScore, HIGH_THRESHOLD) THEN "HIGH"
  ELSE IF GreaterEq(finalScore, MEDIUM_THRESHOLD) THEN "MEDIUM"
  ELSE IF GreaterEq(finalScore, LOW_THRESHOLD) THEN "LOW"
  ELSE "UNVERIFIED"

generateCredibilityExplanation(article) ==
  IF article.sourceType \in DOMAIN CREDIBILITY_SCORES THEN article.sourceType
  ELSE IF article.sourceType \in ObjectPrototypeKeys THEN "inherited property"
  ELSE "unknown"

credibilityOf(article) ==
  LET baseScore  == OrElse(GetProperty(CREDIBILITY_SCORES, article.sourceType),
                           CREDIBILITY_SCORES.unknown)
      adjustment == OrElse(GetProperty(SOURCE_ADJUSTMENTS, article.source), 0)
      finalScore == ClampedSum(baseScore, adjustment)
  IN  [score |-> finalScore,
       tier |-> credibilityTier(finalScore),
       sourceType |-> article.sourceType,
       explanation |-> generateCredibilityExplanation(article)]

\* { ...article, credibility: {...} }
WithField(rec, name, val) ==
  [f \in DOMAIN rec \cup {name} |-> IF f = name THEN val ELSE rec[f]]

assignCredibility(article) == WithField(article, "credibility", credibilityOf(article))

\* a.credibility?.score || 0
ScoreOrZero(a) ==
  IF "credibility" \in DOMAIN a
  THEN (IF a.credibility.score = NaN THEN 0 ELSE a.credibility.score)
  ELSE 0

filterByCredibility(articles, minScore) ==
  LET articlesWithCredibility == [i \in 1..Len(articles) |-> assignCredibility(articles[i])]
      Meets(article) == GreaterEq(article.credibility.score, minScore)
  IN  filter(articlesWithCredibility, Meets)

\* an unstable sort: equal keys come out in reverse input order
sortedPosition_tiesReversed(keys, i) ==
  Cardinality({j \in 1..Len(keys) : keys[j] > keys[i] \/ (keys[j] = keys[i] /\ j > i)}) + 1

\* Array.prototype.sort with the comparator (a, b) => key(b) - key(a) is a
\* stable sort, descending in key: the position of a[i] in the result
sortedPosition(keys, i) ==
  Cardinality({j \in 1..Len(keys) : keys[j] > keys[i] \/ (keys[j] = keys[i] /\ j < i)}) + 1

sortDesc(a, Key(_)) ==
  LET keys == [i \in 1..Len(a) |-> Key(a[i])]
  IN  [p \in 1..Len(a) |-> a[CHOOSE i \in 1..Len(a) : sortedPosition(keys, i) = p]]

sortByCredibility(articles) == sortDesc(articles, ScoreOrZero)

-----------------------------------------------------------------------------
(* Deduplication service                                                   *)

\* `${article.headline} ${article.content}`
articleText(article) == article.headline \o << " " >> \o article.content

\* the word set of jaccardSimilarity: lower case, punctuation removed, split
\* on whitespace, words of more than two characters
wordSet(text) ==
  LET words == splitWhitespace(replaceNonWord(toLowerCase(text), << >>))
  IN  {words[i] : i \in {j \in 1..Len(words) : Len(words[j]) > 2}}

\* intersection.size / union.size as a fraction; 0 when the union is empty
jaccardOf(words1, words2) ==
  IF Cardinality(words1 \cup words2) = 0 THEN [num |-> 0, den |-> 1]
  ELSE [num |-> Cardinality(words1 \cap words2), den |-> Cardinality(words1 \cup words2)]

jaccardSimilarity(text1, text2) == jaccardOf(wordSet(text1), wordSet(text2))

\* similarity > threshold: a near-duplicate exactly at the threshold is kept
isSimilar_strict(similarity, threshold) == similarity.num * 1000 > threshold * similarity.den

\* similarity >= threshold, the threshold in thousandths
isSimilar(similarity, threshold) == similarity.num * 1000 >= threshold * similarity.den

DEFAULT_THRESHOLD == 600

isDuplicateOf(article, unique, threshold) ==
  \E k \in 1..Len(unique) :
     isSimilar(jaccardSimilarity(articleText(article), articleText(unique[k])), threshold)

RECURSIVE dedupLoop(_, _, _, _, _)
dedupLoop(sorted, i, unique, dups, threshold) ==
  IF i > Len(sorted) THEN [unique |-> unique, duplicates |-> dups]
  ELSE IF isDuplicateOf(sorted[i], unique, threshold)
       THEN dedupLoop(sorted, i + 1, unique,
                      Append(dups, WithField(sorted[i], "deduplication",
                                             [status |-> "duplicate",
                                              reason |-> "Similar content already included"])),
                      threshold)
       ELSE dedupLoop(sorted, i + 1,
                      Append(unique, WithField(sorted[i], "deduplication", [status |-> "unique"])),
                      dups, threshold)

\* a sort of the caller's array itself: articles.sort(...)
inputAfterDeduplicate_sortedInPlace(articles) == sortDesc(articles, ScoreOrZero)

\* const sorted = [...articles].sort(...): the sort works on a copy, and the
\* tags go on copies of the documents, so the caller's array is as it was
inputAfterDeduplicate(articles) == articles

\* deduplication in input order, without the sort by credibility
deduplicateArticles_unsorted(articles, threshold) ==
  IF Len(articles) = 0 THEN [unique |-> << >>, duplicates |-> << >>]
  ELSE dedupLoop(articles, 1, << >>, << >>, threshold)

deduplicateArticles(articles, threshold) ==
  IF Len(articles) = 0 THEN [unique |-> << >>, duplicates |-> << >>]
  ELSE dedupLoop(sortDesc(articles, ScoreOrZero), 1, << >>, << >>, threshold)

-----------------------------------------------------------------------------
(* Retrieval service                                                       *)
(* The terms of the model's queries hold letters, digits and the opening   *)
(* parenthesis.  The regular expression built from a term of letters and   *)
(* digits matches the term literally; a term with an opening parenthesis   *)
(* is an unterminated group, and new RegExp raises a SyntaxError on it.    *)

\* query.toLowerCase().split(/\s+/).filter(term => term.length > 2)
retrievalTerms(query) ==
  LET LongEnough(term) == Len(term) > 2
  IN  filter(splitWhitespace(toLowerCase(query)), LongEnough)

\* companyAliases[term]: an own property, an inherited one, or undefined
hasAlias(aliases, term) == \E i \in 1..Len(aliases) : aliases[i].alias = term

tickerOf(aliases, term) == aliases[CHOOSE i \in 1..Len(aliases) : aliases[i].alias = term].ticker

aliasIsOwn(term) == hasAlias(companyAliases, term)

aliasTicker(term) == tickerOf(companyAliases, term)

\* the lower-case terms that name a property inherited from Object.prototype:
\* the value is a function or an object, which is truthy and has no toLowerCase
InheritedLowerCaseKeys ==
  { <<"c","o","n","s","t","r","u","c","t","o","r">>,
    <<"_","_","p","r","o","t","o","_","_">> }

aliasIsInherited(term) == ~ aliasIsOwn(term) /\ term \in InheritedLowerCaseKeys

RECURSIVE expandTerms(_)
expandTerms(queryTerms) ==
  IF queryTerms = << >> THEN << >>
  ELSE (IF aliasIsOwn(queryTerms[1])
        THEN << queryTerms[1], toLowerCase(aliasTicker(queryTerms[1])) >>
        ELSE << queryTerms[1] >>) \o expandTerms(Tail(queryTerms))

\* a headline match that adds one point more, two in total
headlineBonus_single(headlineMatches) == headlineMatches * 1

\* score += (headlineMatches?.length || 0) * 2
headlineBonus(headlineMatches) == headlineMatches * 2

RECURSIVE termScore(_, _, _)
termScore(article, expandedTerms, i) ==
  IF i > Len(expandedTerms) THEN 0
  ELSE LET matches == matchCount(toLowerCase(articleText(article)), expandedTerms[i])
           headlineMatches == matchCount(toLowerCase(article.headline), expandedTerms[i])
       IN  (IF matches > 0 THEN matches * 1 + headlineBonus(headlineMatches) ELSE 0)
           + termScore(article, expandedTerms, i + 1)

hasCompany(article, companies) ==
  \E c \in Range(article.companies) :
     \E x \in Range(companies) : toUpperCase(x) = c

\* a score that the company filter leaves alone
relevanceScore_unfiltered(article, expandedTerms, companies) ==
  termScore(article, expandedTerms, 1)

relevanceScore(article, expandedTerms, companies) ==
  IF Len(companies) > 0 /\ ~ hasCompany(article, companies) THEN 0
  ELSE termScore(article, expandedTerms, 1)

\* financialData.articles.map(article => ({ ...article, relevanceScore: score }))
scoreArticles(articles, expandedTerms, companies) ==
  [i \in 1..Len(articles) |->
     WithField(articles[i], "relevanceScore",
               relevanceScore(articles[i], expandedTerms, companies))]

\* article.companies.some(...) on a document without a companies field is a
\* TypeError; the line runs only when a company filter is given
filterThrows(articles, companies) ==
  Len(companies) > 0 /\ \E i \in 1..Len(articles) : "companies" \notin DOMAIN articles[i]

\* new RegExp(term, 'gi') on a term that opens a group it never closes
patternThrows(term) == arrIncludes(term, "(") /\ ~ arrIncludes(term, ")")

\* the expression is built once per article and term, inside articles.map
regexThrows(articles, expandedTerms) ==
  Len(articles) > 0 /\ \E i \in 1..Len(expandedTerms) : patternThrows(expandedTerms[i])

\* the value, or the exception, of retrieveRelevantContent(query, {maxResults, companies})
\* over the articles of financialData
retrieveFromData(articles, query, maxResults, companies) ==
  LET queryTerms == retrievalTerms(query)
  IN  IF \/ \E i \in 1..Len(queryTerms) : aliasIsInherited(queryTerms[i])
         \/ regexThrows(articles, expandTerms(queryTerms))
         \/ filterThrows(articles, companies)
      THEN [threw |-> TRUE, articles |-> << >>]
      ELSE LET Positive(article) == article.relevanceScore > 0
               ByScore(article) == article.relevanceScore
           IN  [threw |-> FALSE,
                articles |-> slice0(sortDesc(filter(scoreArticles(articles, expandTerms(queryTerms),
                                                                  companies),
                                                    Positive), ByScore),
                                    maxResults)]

\* a scoring that writes article.relevanceScore on the articles of the corpus
articlesAfterRetrieval_scoredInPlace(articles, query, companies) ==
  IF retrieveFromData(articles, query, 0, companies).threw THEN articles
  ELSE scoreArticles(articles, expandTerms(retrievalTerms(query)), companies)

\* financialData.articles after a retrieval: the scoring maps every article
\* to a copy { ...article, relevanceScore }, and filter, sort and slice work on
\* the mapped list
articlesAfterRetrieval(articles, query, companies) == articles

retrieveRelevantContent(query, maxResults, companies) ==
  retrieveFromData(Corpus, query, maxResults, companies)
-----------------------------------------------------------------------------
(* Relevance service (the guardrail)                                       *)
(* Per-document relevance is a double in the source; it is modelled as the *)
(* exact fraction num/den.  On the queries and documents within the bounds *)
(* every comparison that decides isRelevant agrees with the doubles.       *)

importantShortTerms == { <<"e","v">>, <<"a","i">>, <<"i","t">>, <<"u","k">>, <<"u","s">> }

extractQueryTerms(query) ==
  LET Meaningful(term) == Len(term) > 2 \/ term \in importantShortTerms
  IN  filter(splitWhitespace(replaceNonWord(toLowerCase(query), << " " >>)), Meaningful)

isOffTopicTerm(term) ==
  \E k \in 1..Len(OFF_TOPIC_INDICATORS) :
     includes(OFF_TOPIC_INDICATORS[k], term) \/ includes(term, OFF_TOPIC_INDICATORS[k])

\* the off-topic check without its early return on an entity match
detectOffTopicQuery_ignoringEntities(queryTerms, hasKnownEntity) ==
  LET offTopicTerms == filter(queryTerms, isOffTopicTerm)
  IN  [isOffTopic |-> Len(offTopicTerms) > 0, offTopicTerms |-> offTopicTerms]

detectOffTopicQuery(queryTerms, hasKnownEntity) ==
  IF hasKnownEntity THEN [isOffTopic |-> FALSE, offTopicTerms |-> << >>]
  ELSE LET offTopicTerms == filter(queryTerms, isOffTopicTerm)
       IN  [isOffTopic |-> Len(offTopicTerms) > 0, offTopicTerms |-> offTopicTerms]

\* a prefix that passes when it covers half of the variation
coversEightyPercent_half(term, variation) == Len(term) * 10 >= Len(variation) * 5

\* term.length >= variation.length * 0.8
coversEightyPercent(term, variation) == Len(term) * 10 >= Len(variation) * 8

variationMatches(variation, queryTerms, queryText) ==
  \/ arrIncludes(queryTerms, variation)
  \/ (arrIncludes(variation, " ") /\ includes(queryText, variation))
  \/ \E i \in 1..Len(queryTerms) :
        LET term == queryTerms[i]
        IN  /\ Len(term) >= 4
            /\ \/ (startsWith(variation, term) /\ coversEightyPercent(term, variation))
               \/ (startsWith(term, variation) /\ Len(variation) >= 4)

entityMatches(entry, queryTerms, queryText) ==
  \E v \in 1..Len(entry.variations) : variationMatches(entry.variations[v], queryTerms, queryText)

\* matchedEntities.push(entity) for every matching entry, in table order
matchedEntitiesOf(matched) == [i \in 1..Len(matched) |-> matched[i].entity]

\* { hasKnownEntity: matchedEntities.length > 0, matchedEntities }
entityCheckOf(matchedEntities) ==
  [hasKnownEntity |-> Len(matchedEntities) > 0, matchedEntities |-> matchedEntities]

detectKnownEntities(queryTerms) ==
  LET Matched(entry) == entityMatches(entry, queryTerms, join(queryTerms, << " " >>))
  IN  entityCheckOf(matchedEntitiesOf(filter(KNOWN_ENTITIES, Matched)))

\* doc.companies || [] and doc.sector || ''
companiesOf(doc) ==
  IF "companies" \in DOMAIN doc THEN [i \in 1..Len(doc.companies) |-> toLowerCase(doc.companies[i])]
  ELSE << >>

sectorOf(doc) == IF "sector" \in DOMAIN doc THEN toLowerCase(doc.sector) ELSE << >>

relatesTo(queryTerms, tag) ==
  \E i \in 1..Len(queryTerms) : includes(tag, queryTerms[i]) \/ includes(queryTerms[i], tag)

\* the Set overlappingCompanies in insertion order
RECURSIVE addAll(_, _)
addAll(acc, xs) ==
  IF xs = << >> THEN acc
  ELSE addAll(IF arrIncludes(acc, xs[1]) THEN acc ELSE Append(acc, xs[1]), Tail(xs))

\* the document's sector, when the query relates to it
sectorHit(queryTerms, sector) ==
  IF sector # << >> /\ relatesTo(queryTerms, sector) THEN << sector >> ELSE << >>

\* overlappingCompanies.add(x.toUpperCase())
upperCased(tags) == [k \in 1..Len(tags) |-> toUpperCase(tags[k])]

RECURSIVE overlapLoop(_, _, _, _)
overlapLoop(queryTerms, documents, i, acc) ==
  IF i > Len(documents) THEN acc
  ELSE LET Related(company) == relatesTo(queryTerms, company)
       IN  overlapLoop(queryTerms, documents, i + 1,
                       addAll(acc, upperCased(filter(companiesOf(documents[i]), Related)
                                              \o sectorHit(queryTerms, sectorOf(documents[i])))))

\* a guardrail that never sees an overlap between the documents and the query
overlapOf_never(overlappingCompanies) ==
  [hasDocumentOverlap |-> FALSE, overlappingCompanies |-> overlappingCompanies]

\* { hasDocumentOverlap: overlappingCompanies.size > 0, overlappingCompanies }
overlapOf(overlappingCompanies) ==
  [hasDocumentOverlap |-> Len(overlappingCompanies) > 0,
   overlappingCompanies |-> overlappingCompanies]

checkDocumentOverlap(queryTerms, documents) ==
  overlapOf(overlapLoop(queryTerms, documents, 1, << >>))

\* tenths added for one query term by the entity-variation loop
\* one entry of the entity-variation loop: a variation relates to the term
\* and the document names the entity
entityHit(entry, term, docText, companies) ==
  /\ \E v \in 1..Len(entry.variations) :
        \/ includes(entry.variations[v], term)
        \/ includes(term, entry.variations[v])
  /\ \/ includes(docText, entry.entity)
     \/ \E c \in 1..Len(companies) : includes(companies[c], entry.entity)

entityHits(entities, term, docText, companies) ==
  {k \in 1..Len(entities) : entityHit(entities[k], term, docText, companies)}

entityVariationTenths(term, docText, companies) ==
  2 * Cardinality(entityHits(KNOWN_ENTITIES, term, docText, companies))

\* tenths added for one query term
termTenths(term, docText, companies, sector) ==
  (IF includes(docText, term) THEN 3 ELSE 0)
  + (IF \E c \in 1..Len(companies) : includes(companies[c], term) \/ includes(term, companies[c])
     THEN 4 ELSE 0)
  + (IF sector # << >> /\ (includes(sector, term) \/ includes(term, sector)) THEN 3 ELSE 0)
  + entityVariationTenths(term, docText, companies)

RECURSIVE sumTenths(_, _, _, _, _)
sumTenths(queryTerms, i, docText, companies, sector) ==
  IF i > Len(queryTerms) THEN 0
  ELSE termTenths(queryTerms[i], docText, companies, sector)
       + sumTenths(queryTerms, i + 1, docText, companies, sector)

\* Math.min(1, score / queryTerms.length) as the fraction num / den
\* Math.min(1, score / queryTerms.length), the score in tenths
normalizedScore(score, termCount) ==
  IF termCount > 0
  THEN [num |-> IF score > 10 * termCount THEN 10 * termCount ELSE score, den |-> 10 * termCount]
  ELSE [num |-> 0, den |-> 1]

calculateDocumentRelevance(queryTerms, document) ==
  normalizedScore(sumTenths(queryTerms, 1, toLowerCase(articleText(document)),
                            companiesOf(document), sectorOf(document)),
                  Len(queryTerms))

RECURSIVE sumNum(_, _)
sumNum(docScores, i) == IF i > Len(docScores) THEN 0 ELSE docScores[i].score.num + sumNum(docScores, i + 1)

HIGHLY_RELEVANT_TENTHS == 3
LOW_RELEVANCE_HUNDREDTHS == 15
INSUFFICIENT_TENTHS == 1

\* the reason strings, as the text of the template and its interpolated list
REASON_DEFAULT == "Documents are relevant to query"
REASON_NO_DOCUMENTS == "No documents retrieved"
REASON_ENTITY == "Query matches known entities: "
REASON_OVERLAP == "Query matches document topics: "
REASON_OFF_TOPIC == "Query topic (...) not covered by our dataset"
REASON_LOW == "Query does not match any known entities or topics in our dataset"
REASON_INSUFFICIENT == "Insufficient relevant documents found"

Reason(text, list) == [text |-> text, list |-> list]

\* the guardrail without its short-circuit on an empty document set
noDocuments_never(given) == FALSE

\* !documents || documents.length === 0
noDocuments(given) == ~ given.given \/ Len(given.value) = 0

\* a fourth branch that is never taken
belowLowRelevance_never(total, den, count) == FALSE

\* averageScore < 0.15, the mean being total / (den * count)
belowLowRelevance(total, den, count) == total * 100 < LOW_RELEVANCE_HUNDREDTHS * den * count

\* the scoring of the documents, the decision and the result
evaluateScored(queryTerms, entityCheck, offTopicCheck, docOverlap, docScores) ==
  LET den == IF Len(queryTerms) > 0 THEN 10 * Len(queryTerms) ELSE 1
      relevantDocs == {i \in 1..Len(docScores) :
                         docScores[i].score.num * 10 > HIGHLY_RELEVANT_TENTHS * den}
      total == sumNum(docScores, 1)
      count == Len(docScores)
      belowLow == belowLowRelevance(total, den, count)
      \* averageScore < 0.1
      belowInsufficient == total * 10 < INSUFFICIENT_TENTHS * den * count
      decision ==
        IF entityCheck.hasKnownEntity
          THEN [isRelevant |-> TRUE, reason |-> Reason(REASON_ENTITY, entityCheck.matchedEntities)]
        ELSE IF docOverlap.hasDocumentOverlap
          THEN [isRelevant |-> TRUE, reason |-> Reason(REASON_OVERLAP, docOverlap.overlappingCompanies)]
        ELSE IF offTopicCheck.isOffTopic
          THEN [isRelevant |-> FALSE, reason |-> Reason(REASON_OFF_TOPIC, offTopicCheck.offTopicTerms)]
        ELSE IF belowLow
          THEN [isRelevant |-> FALSE, reason |-> Reason(REASON_LOW, << >>)]
        ELSE IF Cardinality(relevantDocs) < 1 /\ belowInsufficient
          THEN [isRelevant |-> FALSE, reason |-> Reason(REASON_INSUFFICIENT, << >>)]
        ELSE [isRelevant |-> TRUE, reason |-> Reason(REASON_DEFAULT, << >>)]
  IN  [isRelevant |-> decision.isRelevant, relevantDocCount |-> Cardinality(relevantDocs),
       averageRelevance |-> [num |-> total, den |-> den * count],
       reason |-> decision.reason, queryTerms |-> queryTerms,
       offTopicCheck |-> offTopicCheck, entityCheck |-> entityCheck,
       docScores |-> docScores]

\* documents.map(doc => ({ id: doc.id, score: calculateDocumentRelevance(queryTerms, doc) }))
scoreDocuments(queryTerms, documents) ==
  [i \in 1..Len(documents) |->
     [id |-> documents[i].id, score |-> calculateDocumentRelevance(queryTerms, documents[i])]]

\* the short-circuit on an empty document set, else the overlap and the scores
evaluateChecked(given, queryTerms, entityCheck, offTopicCheck) ==
  IF noDocuments(given)
  THEN [isRelevant |-> FALSE, relevantDocCount |-> 0, averageRelevance |-> [num |-> 0, den |-> 1],
        reason |-> Reason(REASON_NO_DOCUMENTS, << >>), queryTerms |-> queryTerms,
        offTopicCheck |-> offTopicCheck, entityCheck |-> entityCheck,
        docScores |-> << >>]
  ELSE evaluateScored(queryTerms, entityCheck, offTopicCheck,
                      checkDocumentOverlap(queryTerms, given.value),
                      scoreDocuments(queryTerms, given.value))

\* the off-topic check, which depends on the entity check
evaluateTerms(given, queryTerms, entityCheck) ==
  evaluateChecked(given, queryTerms, entityCheck,
                  detectOffTopicQuery(queryTerms, entityCheck.hasKnownEntity))

\* evaluateRelevance(query, documents); the argument is Given(documents) or,
\* for a call without a document set, LeftOut
evaluateRelevance(query, given) ==
  LET queryTerms == extractQueryTerms(query)
  IN  evaluateTerms(given, queryTerms, detectKnownEntities(queryTerms))

\* the safe response with a canned explanation in place of the guardrail's reason
generateNotRelevantResponse_fixedExplanation(query, relevance) ==
  [success |-> TRUE,
   analysis |-> [narrative |-> "Insufficient relevant data to generate a reliable market insight",
                 sentiment |-> "NEUTRAL",
                 sentimentScore |-> 0,
                 confidence |-> "RUMOR",
                 confidenceExplanation |-> Reason(REASON_LOW, << >>)],
   metadata |-> [model |-> "RELEVANCE_GUARDRAIL", relevanceFiltered |-> TRUE]]

generateNotRelevantResponse(query, relevance) ==
  [success |-> TRUE,
   analysis |-> [narrative |-> "Insufficient relevant data to generate a reliable market insight",
                 sentiment |-> "NEUTRAL",
                 sentimentScore |-> 0,
                 confidence |-> "RUMOR",
                 confidenceExplanation |-> relevance.reason],
   metadata |-> [model |-> "RELEVANCE_GUARDRAIL", relevanceFiltered |-> TRUE]]

-----------------------------------------------------------------------------
(* Summarizer collaborator (gemini service)                                *)

MOCK_ANALYSIS ==
  [narrative |-> "Based on available sources, the market shows mixed but cautiously optimistic signals.",
   sentiment |-> "POSITIVE", sentimentScore |-> 7, confidence |-> "EMERGING",
   confidenceExplanation |-> "The analysis is based on multiple credible sources"]

generateMockAnalysis(query, documents) ==
  [success |-> TRUE,
   analysis |-> MOCK_ANALYSIS,
   metadata |-> [model |-> "MOCK", isMock |-> TRUE, documentsAnalyzed |-> Len(documents)]]

\* what message.content of the completion can be: the JSON of the structured
\* object, JSON of another value, or text that is not JSON
CompletionKinds == {"structured", "otherJSON", "notJSON"}

\* JSON.parse(completion.choices[0].message.content)
parseCompletion(kind) ==
  CASE kind = "structured" ->
         [threw |-> FALSE,
          value |-> [narrative |-> "narrative of the model", sentiment |-> "NEGATIVE",
                     sentimentScore |-> -4, confidence |-> "CONFIRMED",
                     confidenceExplanation |-> "explanation of the model"]]
    [] kind = "otherJSON" -> [threw |-> FALSE, value |-> [other |-> "value"]]
    [] OTHER -> [threw |-> TRUE, value |-> "none"]

\* the value analyzeWithLLM resolves to
llmResult(analysis, documents) ==
  [success |-> TRUE,
   analysis |-> analysis,
   metadata |-> [model |-> "llama-3.1-8b-instant", isMock |-> FALSE,
                 documentsAnalyzed |-> Len(documents)]]

-----------------------------------------------------------------------------
(* The /analyze route                                                      *)

DEFAULT_MAX_SOURCES == 8
DEFAULT_MIN_CREDIBILITY == 400

\* a JSON value in the place of query
StringValue(s) == [type |-> "string", str |-> s]
NonStringValues ==
  { [type |-> "undefined", str |-> << >>], [type |-> "null", str |-> << >>],
    [type |-> "number", str |-> << >>], [type |-> "object", str |-> << >>] }

\* the validation without the trim
isInvalidQuery_untrimmed(query) ==
  \/ query.type \in {"undefined", "null"}
  \/ (query.type = "string" /\ Len(query.str) = 0)
  \/ query.type # "string"

\* !query || typeof query !== 'string' || query.trim().length === 0
isInvalidQuery(query) ==
  \/ query.type \in {"undefined", "null"}
  \/ (query.type = "string" /\ Len(query.str) = 0)
  \/ query.type # "string"
  \/ Len(trim(query.str)) = 0

\* const { maxSources = 8, minCredibility = 0.4, companies = [], useMock = false } = options
optionOr(options, name, default) ==
  IF options[name].given THEN options[name].value ELSE default

NoResponse == [status |-> 0]

validationError ==
  [status |-> 400, success |-> FALSE,
   error |-> "Query is required and must be a non-empty string"]

noContentResponse(query) ==
  [status |-> 200, success |-> TRUE, query |-> query, analysis |-> "null",
   message |-> "No relevant content found for this query. Try different keywords or company names.",
   sources |-> << >>,
   pipeline |-> [retrieved |-> 0, filtered |-> 0, deduplicated |-> 0]]

belowThresholdResponse(query, found) ==
  [status |-> 200, success |-> TRUE, query |-> query, analysis |-> "null",
   message |-> "Found content but all sources below credibility threshold. Try lowering minCredibility.",
   sources |-> << >>,
   pipeline |-> [retrieved |-> Len(found), filtered |-> 0, deduplicated |-> 0]]

notRelevantResponse(query, found, credible, deduped, dups, relevance) ==
  LET safeResponse == generateNotRelevantResponse(query, relevance)
  IN  [status |-> 200,
       success |-> safeResponse.success,
       analysis |-> safeResponse.analysis,
       metadata |-> safeResponse.metadata,
       query |-> query,
       sources |-> << >>,
       credibilityBreakdown |-> "null",
       pipeline |-> [retrieved |-> Len(found),
                     afterCredibilityFilter |-> Len(credible),
                     afterDeduplication |-> Len(deduped),
                     duplicatesRemoved |-> Len(dups),
                     finalSourcesUsed |-> 0,
                     relevanceFiltered |-> TRUE,
                     relevanceReason |-> relevance.reason,
                     averageRelevanceScore |-> relevance.averageRelevance,
                     usedMockResponse |-> FALSE]]

sourceSummary(final) ==
  [i \in 1..Len(final) |->
     [id |-> final[i].id, headline |-> final[i].headline, source |-> final[i].source,
      sourceType |-> final[i].sourceType, credibility |-> final[i].credibility,
      companies |-> final[i].companies]]

getCredibilityBreakdown(articles) ==
  LET TierCount(t) == Cardinality({i \in 1..Len(articles) : articles[i].credibility.tier = t})
  IN  [highCredibilityCount |-> TierCount("HIGH"),
       mediumCredibilityCount |-> TierCount("MEDIUM"),
       lowCredibilityCount |-> TierCount("LOW"),
       unverifiedCount |-> TierCount("UNVERIFIED"),
       totalSources |-> Len(articles)]

analysisResponse(query, result, found, credible, deduped, dups, final, relevance, shouldUseMock) ==
  [status |-> 200,
   success |-> result.success,
   query |-> query,
   analysis |-> result.analysis,
   error |-> "null",
   sources |-> sourceSummary(final),
   credibilityBreakdown |-> getCredibilityBreakdown(final),
   pipeline |-> [retrieved |-> Len(found),
                 afterCredibilityFilter |-> Len(credible),
                 afterDeduplication |-> Len(deduped),
                 duplicatesRemoved |-> Len(dups),
                 finalSourcesUsed |-> Len(final),
                 relevanceFiltered |-> FALSE,
                 averageRelevanceScore |-> relevance.averageRelevance,
                 usedMockResponse |-> shouldUseMock],
   metadata |-> result.metadata]

\* a catch block that answers with the mock analysis
analysisFailed_mockFallback(message) ==
  [status |-> 200, success |-> TRUE, analysis |-> MOCK_ANALYSIS, error |-> "null",
   metadata |-> [model |-> "MOCK", isMock |-> TRUE, documentsAnalyzed |-> 0]]

\* the catch block of the route
analysisFailed(message) ==
  [status |-> 500, success |-> FALSE, error |-> "Analysis failed", message |-> message]

\* a guardrail whose verdict is not acted on
guardrailBlocks_never(relevance) == FALSE

\* if (!relevanceResult.isRelevant) return the safe response
guardrailBlocks(relevance) == ~ relevance.isRelevant

NotEvaluated == [isRelevant |-> FALSE, reason |-> Reason("not evaluated", << >>)]

Locals(found, credible, deduped, dups, final, relevance, ran, next, resp) ==
  [retrieved |-> found, credibleSources |-> credible, dedupedSources |-> deduped,
   duplicates |-> dups, finalSources |-> final, relevanceResult |-> relevance,
   stages |-> ran, next |-> next, response |-> resp]

\* the route from the guardrail's verdict on: the safe response, the mock
\* summarizer, or the await of analyzeWithLLM
fromGuardrail(query, useMock, found, credible, dedup, final, relevance) ==
  IF guardrailBlocks(relevance)
  THEN Locals(found, credible, dedup.unique, dedup.duplicates, final, relevance,
              << "retrieve", "filter", "dedupe", "guardrail" >>, "done",
              notRelevantResponse(query, found, credible, dedup.unique, dedup.duplicates,
                                  relevance))
  ELSE IF useMock
  THEN Locals(found, credible, dedup.unique, dedup.duplicates, final, relevance,
              << "retrieve", "filter", "dedupe", "guardrail", "mock" >>, "done",
              analysisResponse(query, generateMockAnalysis(query, final), found, credible,
                               dedup.unique, dedup.duplicates, final, relevance, useMock))
  ELSE Locals(found, credible, dedup.unique, dedup.duplicates, final, relevance,
              << "retrieve", "filter", "dedupe", "guardrail", "llm" >>, "await", NoResponse)

\* a guardrail that evaluates the deduplicated set before the cap
fromCap_uncapped(query, useMock, found, credible, dedup, final) ==
  fromGuardrail(query, useMock, found, credible, dedup, final,
                evaluateRelevance(query, Given(dedup.unique)))

\* const relevanceResult = evaluateRelevance(query, finalSources)
fromCap(query, useMock, found, credible, dedup, final) ==
  fromGuardrail(query, useMock, found, credible, dedup, final,
                evaluateRelevance(query, Given(final)))

\* const finalSources = sortByCredibility(dedupedSources).slice(0, maxSources)
fromDedup(query, maxSources, useMock, found, credible, dedup) ==
  fromCap(query, useMock, found, credible, dedup,
          slice0(sortByCredibility(dedup.unique), maxSources))

\* the route from the credibility filter's result on
fromFilter(query, maxSources, useMock, found, credible) ==
  IF Len(credible) = 0
  THEN Locals(found, credible, << >>, << >>, << >>, NotEvaluated, << "retrieve", "filter" >>,
              "done", belowThresholdResponse(query, found))
  ELSE fromDedup(query, maxSources, useMock, found, credible,
                 deduplicateArticles(credible, DEFAULT_THRESHOLD))

\* the route from the retrieval's result on
fromRetrieval(query, maxSources, minCredibility, useMock, retrieval) ==
  IF retrieval.threw
  THEN Locals(<< >>, << >>, << >>, << >>, << >>, NotEvaluated, << "retrieve" >>, "done",
              analysisFailed("retrieval"))
  ELSE IF Len(retrieval.articles) = 0
  THEN Locals(retrieval.articles, << >>, << >>, << >>, << >>, NotEvaluated, << "retrieve" >>,
              "done", noContentResponse(query))
  ELSE fromFilter(query, maxSources, useMock, retrieval.articles,
                  filterByCredibility(retrieval.articles, minCredibility))

\* the route with the options' defaults applied; the retrieval reads the
\* articles of financialData
fromOptions(articles, query, maxSources, minCredibility, companies, useMock) ==
  fromRetrieval(query, maxSources, minCredibility, useMock,
                retrieveFromData(articles, query, maxSources * 2, companies))

\* the route from its first statement to its first response or to the await
\* of analyzeWithLLM: the handler's locals, the stages run, what comes next
runPipelineOn(articles, body) ==
  IF isInvalidQuery(body.query)
  THEN Locals(<< >>, << >>, << >>, << >>, << >>, NotEvaluated, << >>, "done", validationError)
  ELSE fromOptions(articles,
                   body.query.str,
                   optionOr(body.options, "maxSources", DEFAULT_MAX_SOURCES),
                   optionOr(body.options, "minCredibility", DEFAULT_MIN_CREDIBILITY),
                   optionOr(body.options, "companies", << >>),
                   optionOr(body.options, "useMock", FALSE))

\* the route over the corpus as loaded
runPipeline(body) == runPipelineOn(Corpus, body)

-----------------------------------------------------------------------------
(* Requests                                                                *)

QueryStrings ==
  { <<"A","p","p","l","e"," ","e","a","r","n","i","n","g","s"," ","Q","4">>,
    <<"l","u","x","u","r","y"," ","w","a","t","c","h"," ","f","a","s","h","i","o","n"," ","t","r","e","n","d","s">>,
    <<"a","p","p","l","e"," ","f","a","s","h","i","o","n">>,
    <<"T","e","s","l","a"," ","C","y","b","e","r","t","r","u","c","k"," ","l","a","u","n","c","h">>,
    <<"s","t","r","o","n","g"," ","z","z","z"," ","y","y","y">>,
    <<"x","y","z">>,
    <<"e","v">>,
    <<"a","c","m","e"," ","t","r","e","n","d","s">>,
    <<"d","e","m","a","n","d"," ","o","u","t","l","o","o","k">>,
    <<" ","t","e","s","l","a"," "," ","l","u","x","u","r","y"," ">>,
    <<"t","e","s","l","a"," ","d","e","m","a","n","d"," ","t","r","e","n","d","s">>,
    <<"c","o","n","s","t","r","u","c","t","o","r">>,
    <<"t","e","s","l","a","r","a","t","i"," ","n","e","w","s">>,
    <<"m","i","c","r","o"," ","t","r","e","n","d","s">>,
    <<"t","h","e"," ","o","u","t","l","o","o","k">>,
    <<"t","e","s","l","a"," ","(","t","s","l","a">>,
    <<"a","c","m","e"," ","f","a","s","h","i","o","n">> }

BlankStrings == { << >>, << " ", " " >> }

QueryValues == {StringValue(s) : s \in QueryStrings \cup BlankStrings} \cup NonStringValues

\* largest maxSources a request of the model asks for
MaxSourcesBound == 2

MaxSourcesValues == {LeftOut(0)} \cup {Given(n) : n \in -1..MaxSourcesBound}

MinCredibilityValues == {LeftOut(0), Given(500), Given(900)}

CompanyFilters == {LeftOut(<< >>), Given(<< <<"a","a","p","l">> >>)}

RequestBodies ==
  [query : QueryValues,
   options : [maxSources : MaxSourcesValues, minCredibility : MinCredibilityValues,
              companies : CompanyFilters, useMock : {LeftOut(FALSE), Given(TRUE)}]]

NoRequest == [query |-> [type |-> "undefined", str |-> << >>], options |-> [maxSources |-> LeftOut(0), minCredibility |-> LeftOut(0),
               companies |-> LeftOut(<< >>), useMock |-> LeftOut(FALSE)]]

NoUnit == [fn |-> "none"]

-----------------------------------------------------------------------------
(* The route as a state machine                                            *)

IdleLocals ==
  /\ retrieved = << >>
  /\ credibleSources = << >>
  /\ dedupedSources = << >>
  /\ duplicates = << >>
  /\ finalSources = << >>
  /\ relevanceResult = NotEvaluated
  /\ stages = << >>
  /\ llmCalls = 0
  /\ mockCalls = 0
  /\ llmInput = << >>
  /\ completion = "none"
  /\ response = NoResponse

Init ==
  /\ pc = "idle"
  /\ hasKey \in BOOLEAN
  /\ req = NoRequest
  /\ IdleLocals
  /\ unit = NoUnit

\* router.post('/analyze') up to its response or up to the await
Analyze ==
  /\ pc = "idle"
  /\ \E body \in RequestBodies :
     \E run \in {runPipeline(body)} :
       LET last == IF run.stages = << >> THEN "none" ELSE run.stages[Len(run.stages)]
       IN  /\ req' = body
           /\ retrieved' = run.retrieved
           /\ credibleSources' = run.credibleSources
           /\ dedupedSources' = run.dedupedSources
           /\ duplicates' = run.duplicates
           /\ finalSources' = run.finalSources
           /\ relevanceResult' = run.relevanceResult
           /\ stages' = run.stages
           /\ response' = run.response
           /\ mockCalls' = IF last = "mock" THEN 1 ELSE 0
           /\ llmCalls' = IF last = "llm" THEN 1 ELSE 0
           /\ llmInput' = IF last \in {"mock", "llm"} THEN run.finalSources ELSE << >>
           /\ pc' = IF run.next = "done" THEN "done"
                    ELSE IF hasKey THEN "awaitCompletion" ELSE "awaitClient"
  /\ UNCHANGED << hasKey, completion, unit >>

\* getGroqClient threw inside analyzeWithLLM: the await rethrows into the catch block
ClientMissing ==
  /\ pc = "awaitClient"
  /\ response' = analysisFailed("GROQ_API_KEY is missing. Check backend/.env")
  /\ completion' = "clientMissing"
  /\ pc' = "done"
  /\ UNCHANGED << hasKey, req, retrieved, credibleSources, dedupedSources, duplicates,
                  finalSources, relevanceResult, stages, llmCalls, mockCalls, llmInput, unit >>

\* client.chat.completions.create resolves; JSON.parse of its content
CompletionArrives ==
  /\ pc = "awaitCompletion"
  /\ \E kind \in CompletionKinds :
       LET parsed == parseCompletion(kind)
       IN  /\ completion' = kind
           /\ response' =
                IF parsed.threw THEN analysisFailed("Unexpected token")
                ELSE analysisResponse(req.query.str, llmResult(parsed.value, finalSources),
                                      retrieved, credibleSources, dedupedSources, duplicates,
                                      finalSources, relevanceResult,
                                      optionOr(req.options, "useMock", FALSE))
  /\ pc' = "done"
  /\ UNCHANGED << hasKey, req, retrieved, credibleSources, dedupedSources, duplicates,
                  finalSources, relevanceResult, stages, llmCalls, mockCalls, llmInput, unit >>

\* client.chat.completions.create rejects
CompletionFails ==
  /\ pc = "awaitCompletion"
  /\ response' = analysisFailed("request failed")
  /\ completion' = "rejected"
  /\ pc' = "done"
  /\ UNCHANGED << hasKey, req, retrieved, credibleSources, dedupedSources, duplicates,
                  finalSources, relevanceResult, stages, llmCalls, mockCalls, llmInput, unit >>

\* the response is sent; the handler's locals are gone and the next request may start
NextRequest ==
  /\ pc = "done"
  /\ pc' = "idle"
  /\ req' = NoRequest
  /\ retrieved' = << >>
  /\ credibleSources' = << >>
  /\ dedupedSources' = << >>
  /\ duplicates' = << >>
  /\ finalSources' = << >>
  /\ relevanceResult' = NotEvaluated
  /\ stages' = << >>
  /\ llmCalls' = 0
  /\ mockCalls' = 0
  /\ llmInput' = << >>
  /\ completion' = "none"
  /\ response' = NoResponse
  /\ UNCHANGED << hasKey, unit >>

Next == Analyze \/ ClientMissing \/ CompletionArrives \/ CompletionFails \/ NextRequest

Spec == Init /\ [][Next]_vars

-----------------------------------------------------------------------------
(* The services called directly, on inputs drawn from bounded sets         *)

RouteNotRunning ==
  /\ pc = "unit"
  /\ hasKey = FALSE
  /\ req = NoRequest
  /\ IdleLocals

\* longest document list handed to a service called directly
MaxDocuments == 2

RECURSIVE ListsUpTo(_, _)
ListsUpTo(S, n) ==
  IF n = 0 THEN { << >> }
  ELSE LET shorter == ListsUpTo(S, n - 1)
       IN  shorter \cup {Append(l, x) : l \in {s \in shorter : Len(s) = n - 1}, x \in S}

ScoredCorpus == {assignCredibility(Corpus[i]) : i \in 1..Len(Corpus)}

\* evaluateRelevance(query, documents)
InitGuardrail ==
  /\ RouteNotRunning
  /\ \E query \in QueryStrings :
       \E documents \in {LeftOut(<< >>)} \cup {Given(l) : l \in ListsUpTo(ScoredCorpus, MaxDocuments)} :
          unit = [fn |-> "evaluateRelevance", query |-> query, documents |-> documents,
                  done |-> FALSE]

CallEvaluateRelevance ==
  /\ unit.fn = "evaluateRelevance"
  /\ ~ unit.done
  /\ unit' = [fn |-> "evaluateRelevance", query |-> unit.query, documents |-> unit.documents,
              done |-> TRUE, out |-> evaluateRelevance(unit.query, unit.documents)]
  /\ UNCHANGED << pc, hasKey, req, retrieved, credibleSources, dedupedSources, duplicates,
                  finalSources, relevanceResult, stages, llmCalls, mockCalls, llmInput,
                  completion, response >>

SpecGuardrail == InitGuardrail /\ [][CallEvaluateRelevance]_vars

\* assignCredibility(article)
SourceTypeValues == DOMAIN CREDIBILITY_SCORES \cup {"blog", Undefined, "constructor"}

SourceNameValues == DOMAIN SOURCE_ADJUSTMENTS \cup {"Morgan Stanley", Undefined, "toString"}

InitCredibility ==
  /\ RouteNotRunning
  /\ \E sourceType \in SourceTypeValues :
       \E source \in SourceNameValues :
          unit = [fn |-> "assignCredibility",
                  article |-> [id |-> 1, source |-> source, sourceType |-> sourceType],
                  done |-> FALSE]

CallAssignCredibility ==
  /\ unit.fn = "assignCredibility"
  /\ ~ unit.done
  /\ unit' = [fn |-> "assignCredibility", article |-> unit.article, done |-> TRUE,
              out |-> assignCredibility(unit.article)]
  /\ UNCHANGED << pc, hasKey, req, retrieved, credibleSources, dedupedSources, duplicates,
                  finalSources, relevanceResult, stages, llmCalls, mockCalls, llmInput,
                  completion, response >>

SpecCredibility == InitCredibility /\ [][CallAssignCredibility]_vars

\* deduplicateArticles(articles, threshold), then again on its unique output
MaxDedupInput == 3

ThresholdValues == {0, 500, DEFAULT_THRESHOLD, 1000}

DedupInputs == ListsUpTo(ScoredCorpus, MaxDedupInput) \cup ListsUpTo(Range(Corpus), MaxDedupInput)

InitDeduplication ==
  /\ RouteNotRunning
  /\ \E articles \in DedupInputs :
       \E threshold \in ThresholdValues :
          unit = [fn |-> "deduplicateArticles", articles |-> articles, threshold |-> threshold,
                  runs |-> 0]

CallDeduplicate ==
  /\ unit.fn = "deduplicateArticles"
  /\ unit.runs = 0
  /\ unit' = [fn |-> "deduplicateArticles", articles |-> unit.articles,
              threshold |-> unit.threshold, runs |-> 1,
              articlesAfter |-> inputAfterDeduplicate(unit.articles),
              first |-> deduplicateArticles(unit.articles, unit.threshold)]
  /\ UNCHANGED << pc, hasKey, req, retrieved, credibleSources, dedupedSources, duplicates,
                  finalSources, relevanceResult, stages, llmCalls, mockCalls, llmInput,
                  completion, response >>

CallDeduplicateAgain ==
  /\ unit.fn = "deduplicateArticles"
  /\ unit.runs = 1
  /\ unit' = [fn |-> "deduplicateArticles", articles |-> unit.articles,
              threshold |-> unit.threshold, runs |-> 2,
              articlesAfter |-> unit.articlesAfter,
              first |-> unit.first,
              second |-> deduplicateArticles(unit.first.unique, unit.threshold)]
  /\ UNCHANGED << pc, hasKey, req, retrieved, credibleSources, dedupedSources, duplicates,
                  finalSources, relevanceResult, stages, llmCalls, mockCalls, llmInput,
                  completion, response >>

NextDeduplication == CallDeduplicate \/ CallDeduplicateAgain

SpecDeduplication == InitDeduplication /\ [][NextDeduplication]_vars

\* jaccardSimilarity(text1, text2), called in both orders and on text1 twice
SimilarityTexts ==
  {articleText(Corpus[i]) : i \in 1..Len(Corpus)}
  \cup { << >>,
         <<"Q","4"," ","u","p">>,
         <<"a"," ","b">>,
         <<"A","p","p","l","e"," ","a","p","p","l","e",".">>,
         <<"a","p","p","l","e"," ","Q","4">> }

InitSimilarity ==
  /\ RouteNotRunning
  /\ \E text1 \in SimilarityTexts :
       \E text2 \in SimilarityTexts :
          unit = [fn |-> "jaccardSimilarity", text1 |-> text1, text2 |-> text2, done |-> FALSE]

CallJaccardSimilarity ==
  /\ unit.fn = "jaccardSimilarity"
  /\ ~ unit.done
  /\ unit' = [fn |-> "jaccardSimilarity", text1 |-> unit.text1, text2 |-> unit.text2,
              done |-> TRUE,
              forward |-> jaccardSimilarity(unit.text1, unit.text2),
              backward |-> jaccardSimilarity(unit.text2, unit.text1),
              self |-> jaccardSimilarity(unit.text1, unit.text1)]
  /\ UNCHANGED << pc, hasKey, req, retrieved, credibleSources, dedupedSources, duplicates,
                  finalSources, relevanceResult, stages, llmCalls, mockCalls, llmInput,
                  completion, response >>

SpecSimilarity == InitSimilarity /\ [][CallJaccardSimilarity]_vars

\* retrieveRelevantContent(query, { maxResults, companies }) over the corpus,
\* and over the corpus with a document that lacks its optional fields
SparseDocument ==
  [id |-> 6,
   headline |-> <<"T","e","s","l","a"," ","s","u","p","p","l","i","e","r"," ","o","u","t","l","o","o","k">>,
   content |-> <<"t","e","s","l","a"," ","d","e","m","a","n","d"," ","s","t","e","a","d","y">>]

DataValues == { Corpus, Append(Corpus, SparseDocument) }

DEFAULT_MAX_RESULTS == 5

\* largest maxResults a direct call of the retrieval asks for
MaxResultsBound == 2

MaxResultsValues == {LeftOut(0)} \cup {Given(n) : n \in -1..MaxResultsBound}

RetrievalCompanyFilters ==
  { LeftOut(<< >>), Given(<< <<"a","a","p","l">> >>), Given(<< <<"T","S","L","A">>, <<"a","c","m","e">> >>) }

InitRetrieval ==
  /\ RouteNotRunning
  /\ \E data \in DataValues :
       \E query \in QueryStrings :
          \E maxResults \in MaxResultsValues :
             \E companies \in RetrievalCompanyFilters :
                unit = [fn |-> "retrieveRelevantContent", data |-> data, query |-> query,
                        maxResults |-> IF maxResults.given THEN maxResults.value
                                       ELSE DEFAULT_MAX_RESULTS,
                        companies |-> IF companies.given THEN companies.value ELSE << >>,
                        done |-> FALSE]

CallRetrieve ==
  /\ unit.fn = "retrieveRelevantContent"
  /\ ~ unit.done
  /\ unit' = [fn |-> "retrieveRelevantContent", data |-> unit.data, query |-> unit.query,
              maxResults |-> unit.maxResults, companies |-> unit.companies, done |-> TRUE,
              out |-> retrieveFromData(unit.data, unit.query, unit.maxResults, unit.companies)]
  /\ UNCHANGED << pc, hasKey, req, retrieved, credibleSources, dedupedSources, duplicates,
                  finalSources, relevanceResult, stages, llmCalls, mockCalls, llmInput,
                  completion, response >>

SpecRetrieval == InitRetrieval /\ [][CallRetrieve]_vars

-----------------------------------------------------------------------------
(* The route under concurrent requests                                     *)
(* Node runs one handler at a time and switches between handlers only at   *)
(* an await; the route has one, the call of analyzeWithLLM.  Each request  *)
(* has its own locals; what the handlers share is the module state of the  *)
(* retrieval service, financialData, and the environment's GROQ_API_KEY.   *)

RequestIds == {1, 2}

ConcurrentQueries ==
  { <<"A","p","p","l","e"," ","e","a","r","n","i","n","g","s"," ","Q","4">>,
    <<"t","e","s","l","a"," ","d","e","m","a","n","d"," ","t","r","e","n","d","s">>,
    <<"a","c","m","e"," ","f","a","s","h","i","o","n">>,
    <<"t","e","s","l","a"," ","(","t","s","l","a">> }

ConcurrentBodies ==
  { body \in RequestBodies :
      /\ body.query.type = "string"
      /\ body.query.str \in ConcurrentQueries
      /\ body.options.maxSources = LeftOut(0)
      /\ body.options.minCredibility = LeftOut(0)
      /\ body.options.companies = LeftOut(<< >>) }

NoRun == Locals(<< >>, << >>, << >>, << >>, << >>, NotEvaluated, << >>, "done", NoResponse)

\* a handler that is not running
IdleRequest ==
  [pc |-> "idle", req |-> NoRequest, run |-> NoRun, completion |-> "none",
   response |-> NoResponse, overlapped |-> FALSE]

\* the response of a handler that resumes after its await
resumedResponse(body, run, settled) ==
  IF settled = "clientMissing"
  THEN analysisFailed("GROQ_API_KEY is missing. Check backend/.env")
  ELSE IF settled = "rejected" THEN analysisFailed("request failed")
  ELSE IF parseCompletion(settled).threw THEN analysisFailed("Unexpected token")
  ELSE analysisResponse(body.query.str,
                        llmResult(parseCompletion(settled).value, run.finalSources),
                        run.retrieved, run.credibleSources, run.dedupedSources,
                        run.duplicates, run.finalSources, run.relevanceResult,
                        optionOr(body.options, "useMock", FALSE))

isAwaiting(request) == request.pc \in {"awaitClient", "awaitCompletion"}

InitServer ==
  /\ pc = "unit"
  /\ hasKey \in BOOLEAN
  /\ req = NoRequest
  /\ IdleLocals
  /\ unit = [fn |-> "server", financialData |-> Corpus,
             requests |-> [r \in RequestIds |-> IdleRequest]]

\* the request the handler received, run to its response or to its await;
\* overlapped records that another handler was suspended meanwhile
received(body, run, key, others) ==
  [pc |-> IF run.next = "done" THEN "done"
          ELSE IF key THEN "awaitCompletion" ELSE "awaitClient",
   req |-> body, run |-> run, completion |-> "none", response |-> run.response,
   overlapped |-> others]

\* router.post('/analyze') up to its response or up to the await, while
\* other handlers may be suspended
ReceiveRequest ==
  /\ unit.fn = "server"
  /\ \E r \in RequestIds :
       /\ unit.requests[r].pc = "idle"
       /\ \E body \in ConcurrentBodies :
            \E run \in {runPipelineOn(unit.financialData, body)} :
              \E others \in {\E o \in RequestIds \ {r} : isAwaiting(unit.requests[o])} :
                unit' = [fn |-> "server",
                         financialData |->
                           articlesAfterRetrieval(unit.financialData, body.query.str,
                                                  optionOr(body.options, "companies", << >>)),
                         requests |->
                           [o \in RequestIds |->
                              IF o = r THEN received(body, run, hasKey, others)
                              ELSE IF others /\ isAwaiting(unit.requests[o])
                                   THEN [unit.requests[o] EXCEPT !.overlapped = TRUE]
                                   ELSE unit.requests[o]]]
  /\ UNCHANGED << pc, hasKey, req, retrieved, credibleSources, dedupedSources, duplicates,
                  finalSources, relevanceResult, stages, llmCalls, mockCalls, llmInput,
                  completion, response >>

\* the await of analyzeWithLLM settles and the handler runs to its response
resumed(request, settled) ==
  [request EXCEPT !.pc = "done", !.completion = settled,
                  !.response = resumedResponse(request.req, request.run, settled)]

\* getGroqClient threw inside analyzeWithLLM
ResumeWithoutClient ==
  /\ unit.fn = "server"
  /\ \E r \in RequestIds :
       /\ unit.requests[r].pc = "awaitClient"
       /\ unit' = [unit EXCEPT !.requests[r] = resumed(unit.requests[r], "clientMissing")]
  /\ UNCHANGED << pc, hasKey, req, retrieved, credibleSources, dedupedSources, duplicates,
                  finalSources, relevanceResult, stages, llmCalls, mockCalls, llmInput,
                  completion, response >>

\* client.chat.completions.create resolves
ResumeWithCompletion ==
  /\ unit.fn = "server"
  /\ \E r \in RequestIds :
       /\ unit.requests[r].pc = "awaitCompletion"
       /\ \E kind \in CompletionKinds :
            unit' = [unit EXCEPT !.requests[r] = resumed(unit.requests[r], kind)]
  /\ UNCHANGED << pc, hasKey, req, retrieved, credibleSources, dedupedSources, duplicates,
                  finalSources, relevanceResult, stages, llmCalls, mockCalls, llmInput,
                  completion, response >>

\* client.chat.completions.create rejects
ResumeWithRejection ==
  /\ unit.fn = "server"
  /\ \E r \in RequestIds :
       /\ unit.requests[r].pc = "awaitCompletion"
       /\ unit' = [unit EXCEPT !.requests[r] = resumed(unit.requests[r], "rejected")]
  /\ UNCHANGED << pc, hasKey, req, retrieved, credibleSources, dedupedSources, duplicates,
                  finalSources, relevanceResult, stages, llmCalls, mockCalls, llmInput,
                  completion, response >>

\* the response is sent and the handler's locals are gone
SendResponse ==
  /\ unit.fn = "server"
  /\ \E r \in RequestIds :
       /\ unit.requests[r].pc = "done"
       /\ unit' = [unit EXCEPT !.requests[r] = IdleRequest]
  /\ UNCHANGED << pc, hasKey, req, retrieved, credibleSources, dedupedSources, duplicates,
                  finalSources, relevanceResult, stages, llmCalls, mockCalls, llmInput,
                  completion, response >>

NextServer ==
  ReceiveRequest \/ ResumeWithoutClient \/ ResumeWithCompletion \/ ResumeWithRejection
    \/ SendResponse

SpecConcurrent == InitServer /\ [][NextServer]_vars
-----------------------------------------------------------------------------
(* The dashboard (App and QueryPanel)                                      *)
(* The state is the four useState cells of App, the analyzeQuery calls that *)
(* have not settled, and, for the statement of the history's content, the  *)
(* list of the entries of all responses that carried a sentiment score.    *)
(* The timestamp of a history entry is left out.                           *)

HISTORY_KEPT == 9

QUERY_LABEL_LENGTH == 15

\* largest number of responses with a sentiment score in one session
MaxScoredResponses == 11

\* what the user has typed into the query input
TypedTexts ==
  { << " ", " " >>,
    <<"T","e","s","l","a"," ">>,
    <<"A","p","p","l","e"," ","e","a","r","n","i","n","g","s"," ","Q","4">> }

NoAnalysis == [present |-> FALSE, sentimentScore |-> LeftOut(0)]

\* the sentiment score the backend reports for the query, in tenths
scoreReported(query) == IF Len(query) > QUERY_LABEL_LENGTH THEN 7 ELSE 0

\* the JSON bodies analyzeQuery can resolve to: an analysis with a score, an
\* analysis without one, analysis: null, and success: false with and without
\* an error text
ResponsesTo(query) ==
  { [success |-> TRUE, error |-> "null",
     analysis |-> [present |-> TRUE, sentimentScore |-> Given(scoreReported(query))]],
    [success |-> TRUE, error |-> "null",
     analysis |-> [present |-> TRUE, sentimentScore |-> LeftOut(0)]],
    [success |-> TRUE, error |-> "null", analysis |-> NoAnalysis],
    [success |-> FALSE, error |-> "Analysis failed", analysis |-> NoAnalysis],
    [success |-> FALSE, error |-> "null", analysis |-> NoAnalysis] }

\* the messages of the errors analyzeQuery can reject with
RejectionMessages == {"Failed to fetch", "HTTP error: 500"}

NoResult == LeftOut([success |-> FALSE, error |-> "null", analysis |-> NoAnalysis])

InitDashboard ==
  /\ RouteNotRunning
  /\ unit = [fn |-> "App", isLoading |-> FALSE, error |-> "null", result |-> NoResult,
             sentimentHistory |-> << >>, inFlight |-> << >>, scored |-> << >>,
             path |-> "none"]

\* a submit that ignores the loading flag
canSubmit_always(query, isLoading) == Len(trim(query)) > 0

\* if (query.trim() && !isLoading)
canSubmit(query, isLoading) == Len(trim(query)) > 0 /\ ~ isLoading

\* QueryPanel.handleSubmit and handleAnalyze up to its await
Submit ==
  /\ unit.fn = "App"
  /\ \E query \in TypedTexts :
       /\ canSubmit(query, unit.isLoading)
       /\ unit' = [unit EXCEPT !.isLoading = TRUE, !.error = "null",
                               !.inFlight = Append(unit.inFlight, trim(query))]
  /\ UNCHANGED << pc, hasKey, req, retrieved, credibleSources, dedupedSources, duplicates,
                  finalSources, relevanceResult, stages, llmCalls, mockCalls, llmInput,
                  completion, response >>

\* query.length > 15 ? query.substring(0, 15) + '...' : query
queryLabel(query) ==
  IF Len(query) > QUERY_LABEL_LENGTH
  THEN SubSeq(query, 1, QUERY_LABEL_LENGTH) \o << ".", ".", "." >>
  ELSE query

historyEntry(query, analysis) ==
  [query |-> queryLabel(query), score |-> analysis.sentimentScore.value]

\* a history that keeps every entry
keptHistory_all(prev) == prev

\* prev.slice(-9)
keptHistory(prev) ==
  IF Len(prev) > HISTORY_KEPT THEN SubSeq(prev, Len(prev) - HISTORY_KEPT + 1, Len(prev))
  ELSE prev

\* response.analysis?.sentimentScore !== undefined
hasScore(analysis) == analysis.present /\ analysis.sentimentScore.given

\* !response.success && response.error
reportsFailure(answer) == ~ answer.success /\ answer.error # "null"

withoutCall(calls, k) == [i \in 1..(Len(calls) - 1) |-> IF i < k THEN calls[i] ELSE calls[i + 1]]

\* the state after the catch block and the finally block
afterCatch(app, k, message) ==
  [app EXCEPT !.isLoading = FALSE, !.error = message, !.result = NoResult,
              !.inFlight = withoutCall(app.inFlight, k), !.path = "catch"]

\* the state after the try block and the finally block
afterTry(app, k, answer) ==
  [app EXCEPT !.isLoading = FALSE, !.result = Given(answer),
              !.sentimentHistory =
                 IF hasScore(answer.analysis)
                 THEN Append(keptHistory(app.sentimentHistory),
                             historyEntry(app.inFlight[k], answer.analysis))
                 ELSE app.sentimentHistory,
              !.scored =
                 IF hasScore(answer.analysis)
                 THEN Append(app.scored, historyEntry(app.inFlight[k], answer.analysis))
                 ELSE app.scored,
              !.inFlight = withoutCall(app.inFlight, k), !.path = "try"]

\* analyzeQuery resolves and handleAnalyze runs to its end
ResponseArrives ==
  /\ unit.fn = "App"
  /\ \E k \in 1..Len(unit.inFlight) :
       \E answer \in ResponsesTo(unit.inFlight[k]) :
          /\ hasScore(answer.analysis) => Len(unit.scored) < MaxScoredResponses
          /\ unit' = IF reportsFailure(answer) THEN afterCatch(unit, k, answer.error)
                       ELSE afterTry(unit, k, answer)
  /\ UNCHANGED << pc, hasKey, req, retrieved, credibleSources, dedupedSources, duplicates,
                  finalSources, relevanceResult, stages, llmCalls, mockCalls, llmInput,
                  completion, response >>

\* analyzeQuery rejects (fetch fails, or the status is not ok) and
\* handleAnalyze runs its catch and finally blocks
RequestFails ==
  /\ unit.fn = "App"
  /\ \E k \in 1..Len(unit.inFlight) :
       \E message \in RejectionMessages :
          unit' = afterCatch(unit, k, message)
  /\ UNCHANGED << pc, hasKey, req, retrieved, credibleSources, dedupedSources, duplicates,
                  finalSources, relevanceResult, stages, llmCalls, mockCalls, llmInput,
                  completion, response >>

NextDashboard == Submit \/ ResponseArrives \/ RequestFails

SpecDashboard == InitDashboard /\ [][NextDashboard]_vars

\* the promise of analyzeQuery settles: the fetch resolves or rejects
Settle == ResponseArrives \/ RequestFails

SpecDashboardLive == SpecDashboard /\ WF_vars(Settle)
-----------------------------------------------------------------------------
(* Properties                                                              *)

maxSourcesOf(body) == optionOr(body.options, "maxSources", DEFAULT_MAX_SOURCES)

minCredibilityOf(body) == optionOr(body.options, "minCredibility", DEFAULT_MIN_CREDIBILITY)

SummarizerInvoked == llmCalls + mockCalls > 0

GuardrailRan == \E i \in 1..Len(stages) : stages[i] = "guardrail"

\* C1: the final set the orchestrator hands to the summarizer and returns as
\* sources has at most maxSources members, each of credibility score
\* >= minCredibility, for every query and every options bundle.
C1_FinalSetWithinCapAndThreshold ==
  SummarizerInvoked =>
    /\ llmInput = finalSources
    /\ Len(finalSources) <= maxSourcesOf(req)
    /\ \A i \in 1..Len(finalSources) :
          /\ finalSources[i].credibility.score # NaN
          /\ finalSources[i].credibility.score >= minCredibilityOf(req)

isCorpusDocument(doc) ==
  \E i \in 1..Len(Corpus) : \A f \in DOMAIN Corpus[i] : f \in DOMAIN doc /\ doc[f] = Corpus[i][f]

belowThreshold(a, b, threshold) ==
  LET similarity == jaccardSimilarity(articleText(a), articleText(b))
  IN  similarity.num * 1000 < threshold * similarity.den

\* C2: every document handed to the summarizer is a document of the corpus,
\* and any two of them have Jaccard similarity strictly below 0.6.
C2_FinalSetFromCorpusWithoutNearDuplicates ==
  SummarizerInvoked =>
    /\ \A i \in 1..Len(llmInput) : isCorpusDocument(llmInput[i])
    /\ \A i, j \in 1..Len(llmInput) :
          i # j => belowThreshold(llmInput[i], llmInput[j], DEFAULT_THRESHOLD)

C2_Witness ==
  /\ SummarizerInvoked
  /\ Len(llmInput) >= 2
  /\ Len(duplicates) >= 1

queryHasKnownEntity(query) == detectKnownEntities(extractQueryTerms(query)).hasKnownEntity

queryHasOffTopicWord(query) ==
  \E term \in Range(extractQueryTerms(query)) : isOffTopicTerm(term)

GuardrailCalled == unit.fn = "evaluateRelevance" /\ unit.done

documentSetIsEmpty(given) == ~ given.given \/ Len(given.value) = 0

\* C3: for a query that matches a known entity and also holds an off-topic
\* indicator word, evaluateRelevance on a non-empty document set answers
\* relevant through the entity branch, and reports no off-topic finding.
C3_EntityMatchOverridesOffTopic ==
  (/\ GuardrailCalled
   /\ ~ documentSetIsEmpty(unit.documents)
   /\ queryHasKnownEntity(unit.query)
   /\ queryHasOffTopicWord(unit.query))
  => /\ unit.out.isRelevant
     /\ unit.out.reason = Reason(REASON_ENTITY, unit.out.entityCheck.matchedEntities)
     /\ ~ unit.out.offTopicCheck.isOffTopic
     /\ unit.out.offTopicCheck.offTopicTerms = << >>

C3_Witness ==
  /\ GuardrailCalled
  /\ ~ documentSetIsEmpty(unit.documents)
  /\ queryHasKnownEntity(unit.query)
  /\ queryHasOffTopicWord(unit.query)
  /\ unit.out.isRelevant

EndsInValidationError == response.status = 400

EndsInNoContent == pc = "done" /\ response = noContentResponse(req.query.str)

EndsInBelowThreshold == pc = "done" /\ response = belowThresholdResponse(req.query.str, retrieved)

EndsInRejection ==
  /\ response.status = 200
  /\ "pipeline" \in DOMAIN response
  /\ "relevanceFiltered" \in DOMAIN response.pipeline
  /\ response.pipeline.relevanceFiltered

\* C4: the summarizer, real or mock, is invoked only after the guardrail has
\* run and accepted the final set, and never in a run that ends with a
\* validation error, no content, below threshold, or a guardrail rejection.
C4_SummarizerOnlyAfterAcceptance ==
  /\ SummarizerInvoked =>
       /\ Len(stages) = 5
       /\ stages[4] = "guardrail"
       /\ stages[5] \in {"llm", "mock"}
       /\ relevanceResult.isRelevant
  /\ (EndsInValidationError \/ EndsInNoContent \/ EndsInBelowThreshold \/ EndsInRejection)
       => /\ ~ SummarizerInvoked
          /\ \A i \in 1..Len(stages) : stages[i] \notin {"llm", "mock"}

C4_Witness ==
  /\ pc = "done"
  /\ llmCalls = 1
  /\ relevanceResult.isRelevant
  /\ response.status = 200

\* C5: evaluateRelevance on an empty or missing document set answers not
\* relevant with the reason "No documents retrieved" for every query, a query
\* matching a known entity included, and scores no document.
C5_EmptySetIsNotRelevant ==
  (GuardrailCalled /\ documentSetIsEmpty(unit.documents))
  => /\ ~ unit.out.isRelevant
     /\ unit.out.reason = Reason(REASON_NO_DOCUMENTS, << >>)
     /\ unit.out.docScores = << >>
     /\ unit.out.relevantDocCount = 0

C5_Witness ==
  /\ GuardrailCalled
  /\ documentSetIsEmpty(unit.documents)
  /\ queryHasKnownEntity(unit.query)
  /\ ~ unit.out.isRelevant

GuardrailRejected == pc = "done" /\ GuardrailRan /\ ~ relevanceResult.isRelevant

\* C6: when the guardrail rejects, the response is successful, has no sources,
\* finalSourcesUsed = 0, relevanceFiltered = true, and the canned analysis
\* (NEUTRAL, score 0, RUMOR) whose explanation is the guardrail's reason.
C6_RejectionYieldsCannedResponse ==
  GuardrailRejected =>
    /\ response.success
    /\ response.sources = << >>
    /\ response.pipeline.finalSourcesUsed = 0
    /\ response.pipeline.relevanceFiltered
    /\ response.analysis.sentiment = "NEUTRAL"
    /\ response.analysis.sentimentScore = 0
    /\ response.analysis.confidence = "RUMOR"
    /\ response.analysis.confidenceExplanation = relevanceResult.reason

C6_Witness ==
  /\ GuardrailRejected
  /\ relevanceResult.reason.text = REASON_OFF_TOPIC
  /\ Len(finalSources) >= 1

SummarizerFailed == completion \in {"clientMissing", "rejected", "notJSON"}

queryIsBlankOrNotString(query) ==
  query.type # "string" \/ \A i \in 1..Len(query.str) : query.str[i] = " "

\* C8: a request whose query is missing, not a string, empty or blank is
\* answered at once with the validation error, and no pipeline stage runs.
C8_InvalidQueryRunsNoStage ==
  (pc # "idle" /\ pc # "unit" /\ queryIsBlankOrNotString(req.query))
  => /\ pc = "done"
     /\ response.status = 400
     /\ ~ response.success
     /\ stages = << >>
     /\ retrieved = << >>
     /\ ~ SummarizerInvoked

C8_Witness ==
  /\ pc = "done"
  /\ req.query = StringValue(<< " ", " " >>)
  /\ response.status = 400

tierAgrees(score, tier) ==
  /\ tier = "HIGH" <=> score >= HIGH_THRESHOLD
  /\ tier = "MEDIUM" <=> (score >= MEDIUM_THRESHOLD /\ score < HIGH_THRESHOLD)
  /\ tier = "LOW" <=> (score >= LOW_THRESHOLD /\ score < MEDIUM_THRESHOLD)
  /\ tier = "UNVERIFIED" <=> score < LOW_THRESHOLD

\* C9: for every source-type and every source name, assignCredibility yields
\* a score in [0.1, 1.0] and the tier the fixed thresholds give that score.
C9_ScoreInRangeAndTierAgrees ==
  (unit.fn = "assignCredibility" /\ unit.done)
  => /\ unit.out.credibility.score # NaN
     /\ unit.out.credibility.score >= 100
     /\ unit.out.credibility.score <= 1000
     /\ tierAgrees(unit.out.credibility.score, unit.out.credibility.tier)

\* C10: deduplicateArticles run again on the unique output of a run returns
\* the same documents in the same order and no duplicates.
C10_DeduplicateIsIdempotent ==
  (unit.fn = "deduplicateArticles" /\ unit.runs = 2)
  => /\ unit.second.unique = unit.first.unique
     /\ unit.second.duplicates = << >>

C10_Witness ==
  /\ unit.fn = "deduplicateArticles"
  /\ unit.runs = 2
  /\ Len(unit.first.unique) >= 2
  /\ Len(unit.first.duplicates) >= 1
  /\ unit.second.unique = unit.first.unique

\* C11: jaccardSimilarity(a, b) = jaccardSimilarity(b, a) for all texts a and
\* b, and jaccardSimilarity(a, a) = 1.0 for every text a, a text with no token
\* longer than 2 characters included.
C11_JaccardSymmetricAndReflexive ==
  (unit.fn = "jaccardSimilarity" /\ unit.done)
  => /\ unit.forward.num * unit.backward.den = unit.backward.num * unit.forward.den
     /\ unit.self.num = unit.self.den

DeduplicateCalled == unit.fn = "deduplicateArticles" /\ unit.runs >= 1

atLeastThreshold(a, b, threshold) ==
  LET similarity == jaccardSimilarity(articleText(a), articleText(b))
  IN  similarity.num * 1000 >= threshold * similarity.den

\* C12: every document deduplicateArticles tags duplicate has a document in
\* unique of similarity >= threshold to it and of credibility score (0 when
\* missing) at least its own; of two near-duplicate documents with different
\* scores only the higher-scored one is kept, the other is tagged duplicate.
C12_DuplicateHasBetterKeptTwin ==
  DeduplicateCalled =>
    /\ \A d \in 1..Len(unit.first.duplicates) :
          \E u \in 1..Len(unit.first.unique) :
             /\ atLeastThreshold(unit.first.duplicates[d], unit.first.unique[u], unit.threshold)
             /\ ScoreOrZero(unit.first.unique[u]) >= ScoreOrZero(unit.first.duplicates[d])
    /\ (/\ Len(unit.articles) = 2
        /\ atLeastThreshold(unit.articles[1], unit.articles[2], unit.threshold)
        /\ ScoreOrZero(unit.articles[1]) # ScoreOrZero(unit.articles[2]))
       => /\ Len(unit.first.unique) = 1
          /\ Len(unit.first.duplicates) = 1
          /\ ScoreOrZero(unit.first.unique[1]) > ScoreOrZero(unit.first.duplicates[1])
          /\ unit.first.duplicates[1].deduplication.status = "duplicate"

C12_Witness ==
  /\ DeduplicateCalled
  /\ Len(unit.articles) = 2
  /\ ScoreOrZero(unit.articles[1]) < ScoreOrZero(unit.articles[2])
  /\ Len(unit.first.duplicates) = 1
  /\ unit.first.unique[1].id = unit.articles[2].id

withoutTag(doc) == [f \in DOMAIN doc \ {"deduplication"} |-> doc[f]]

occurrencesIn(list, doc) == Cardinality({i \in 1..Len(list) : withoutTag(list[i]) = doc})

RetrieveReturned == unit.fn = "retrieveRelevantContent" /\ unit.done /\ ~ unit.out.threw

positionInData(doc) == CHOOSE i \in 1..Len(unit.data) : unit.data[i].id = doc.id

isReturned(doc) == \E i \in 1..Len(unit.out.articles) : unit.out.articles[i].id = doc.id

scoreInData(doc) ==
  relevanceScore(doc, expandTerms(retrievalTerms(unit.query)), unit.companies)

\* C14: retrieveRelevantContent returns at most maxResults documents, each of
\* relevance score > 0, in order of non-increasing score with documents of
\* equal score in corpus order; no corpus document left out of the result
\* scores strictly higher than a returned one.
C14_RetrievalCappedAndOrdered ==
  RetrieveReturned =>
    /\ Len(unit.out.articles) <= unit.maxResults
    /\ \A i \in 1..Len(unit.out.articles) : unit.out.articles[i].relevanceScore > 0
    /\ \A i, j \in 1..Len(unit.out.articles) :
          i < j =>
            \/ unit.out.articles[i].relevanceScore > unit.out.articles[j].relevanceScore
            \/ /\ unit.out.articles[i].relevanceScore = unit.out.articles[j].relevanceScore
               /\ positionInData(unit.out.articles[i]) < positionInData(unit.out.articles[j])
    /\ \A d \in 1..Len(unit.data) :
          ~ isReturned(unit.data[d]) =>
            \A i \in 1..Len(unit.out.articles) :
               scoreInData(unit.data[d]) <= unit.out.articles[i].relevanceScore

tagsOverlapQuery(query, documents) ==
  \E d \in 1..Len(documents) :
     \/ \E c \in 1..Len(companiesOf(documents[d])) :
           relatesTo(extractQueryTerms(query), companiesOf(documents[d])[c])
     \/ /\ sectorOf(documents[d]) # << >>
        /\ relatesTo(extractQueryTerms(query), sectorOf(documents[d]))

\* averageRelevance < 0.15
meanBelowLow(average) == average.num * 100 < LOW_RELEVANCE_HUNDREDTHS * average.den

expectedReason(hasEntity, hasOverlap, isOffTopic, isLow) ==
  IF hasEntity THEN REASON_ENTITY
  ELSE IF hasOverlap THEN REASON_OVERLAP
  ELSE IF isOffTopic THEN REASON_OFF_TOPIC
  ELSE IF isLow THEN REASON_LOW
  ELSE REASON_DEFAULT

\* C15: on a non-empty document set evaluateRelevance decides in priority
\* order: relevant on a known-entity match; else relevant when the documents'
\* company or sector tags overlap the query terms, off-topic words or not;
\* else not relevant on an off-topic word; else not relevant when the mean
\* document relevance is below 0.15; else relevant.  Every outcome has a
\* non-empty reason.
C15_DecisionInPriorityOrder ==
  (GuardrailCalled /\ ~ documentSetIsEmpty(unit.documents))
  => /\ unit.out.isRelevant
          = \/ queryHasKnownEntity(unit.query)
            \/ tagsOverlapQuery(unit.query, unit.documents.value)
            \/ /\ ~ queryHasOffTopicWord(unit.query)
               /\ ~ meanBelowLow(unit.out.averageRelevance)
     /\ unit.out.reason.text
          = expectedReason(queryHasKnownEntity(unit.query),
                           tagsOverlapQuery(unit.query, unit.documents.value),
                           queryHasOffTopicWord(unit.query),
                           meanBelowLow(unit.out.averageRelevance))
     /\ unit.out.reason.text # ""

C15_Witness ==
  /\ GuardrailCalled
  /\ ~ documentSetIsEmpty(unit.documents)
  /\ ~ queryHasKnownEntity(unit.query)
  /\ tagsOverlapQuery(unit.query, unit.documents.value)
  /\ queryHasOffTopicWord(unit.query)
  /\ unit.out.isRelevant
  /\ unit.out.reason.text = REASON_OVERLAP

ownAdjustment(source) ==
  IF source \in DOMAIN SOURCE_ADJUSTMENTS THEN SOURCE_ADJUSTMENTS[source] ELSE 0

\* C16: for every source-type outside {official, major_publication, analyst,
\* social_media, unknown}, a missing one included, assignCredibility returns
\* and scores the article from the unknown base score 0.30 plus the source
\* name's adjustment, clamped to [0.1, 1.0].
C16_UnlistedSourceTypeScoresAsUnknown ==
  (/\ unit.fn = "assignCredibility"
   /\ unit.done
   /\ unit.article.sourceType \notin DOMAIN CREDIBILITY_SCORES
   /\ unit.article.source \notin ObjectPrototypeKeys)
  => unit.out.credibility.score
       = ClampedSum([kind |-> "number", n |-> CREDIBILITY_SCORES.unknown],
                    [kind |-> "number", n |-> ownAdjustment(unit.article.source)])

lacksOptionalFields(doc) ==
  {"companies", "sector", "sourceType", "source"} \cap DOMAIN doc = {}

\* C17: on a corpus document that lacks its optional fields (companies,
\* sector, source-type, source name) the retriever, with an entity filter and
\* without one, completes without raising.
C17_SparseDocumentDoesNotRaise ==
  (/\ unit.fn = "retrieveRelevantContent"
   /\ unit.done
   /\ \E d \in 1..Len(unit.data) : lacksOptionalFields(unit.data[d])
   /\ \A t \in 1..Len(retrievalTerms(unit.query)) :
         /\ ~ aliasIsInherited(retrievalTerms(unit.query)[t])
         /\ ~ patternThrows(retrievalTerms(unit.query)[t]))
  => ~ unit.out.threw

GuardrailAccepted == pc = "done" /\ GuardrailRan /\ relevanceResult.isRelevant

useMockOf(body) == optionOr(body.options, "useMock", FALSE)

MockProduced ==
  /\ "metadata" \in DOMAIN response
  /\ "isMock" \in DOMAIN response.metadata
  /\ response.metadata.isMock
  /\ "usedMockResponse" \in DOMAIN response.pipeline
  /\ response.pipeline.usedMockResponse

\* C18: in a run whose guardrail accepts, the mock analysis (metadata.isMock
\* and usedMockResponse both true) is produced exactly when useMock is true or
\* the summarizer API key is not configured; with useMock true the real
\* summarizer is never called.
C18_MockExactlyOnFlagOrMissingKey ==
  GuardrailAccepted =>
    /\ MockProduced <=> (useMockOf(req) \/ ~ hasKey)
    /\ useMockOf(req) => llmCalls = 0

matchesFilter(doc, companies) ==
  /\ "companies" \in DOMAIN doc
  /\ \E c \in 1..Len(doc.companies) :
        \E x \in 1..Len(companies) : toUpperCase(companies[x]) = doc.companies[c]

termScoreInData(doc) == termScore(doc, expandTerms(retrievalTerms(unit.query)), 1)

\* C19: with a non-empty entity filter every document retrieveRelevantContent
\* returns has a ticker equal to an upper-cased filter entry; a document whose
\* tickers do not meet the filter is never returned, whatever its term score.
C19_FilterExcludesOtherEntities ==
  (RetrieveReturned /\ Len(unit.companies) > 0)
  => /\ \A i \in 1..Len(unit.out.articles) :
           matchesFilter(unit.out.articles[i], unit.companies)
     /\ \A d \in 1..Len(unit.data) :
           ~ matchesFilter(unit.data[d], unit.companies) => ~ isReturned(unit.data[d])

C19_Witness ==
  /\ RetrieveReturned
  /\ Len(unit.companies) > 0
  /\ Len(unit.out.articles) >= 1
  /\ \E d \in 1..Len(unit.data) :
        /\ ~ matchesFilter(unit.data[d], unit.companies)
        /\ termScoreInData(unit.data[d]) > unit.out.articles[1].relevanceScore
        /\ ~ isReturned(unit.data[d])

\* the number of places of the text where the term stands
occurrences(text, term) ==
  Cardinality({p \in 0..Len(text) : MatchesAt(text, term, p)})

RECURSIVE weightedOccurrences(_, _, _, _)
weightedOccurrences(doc, terms, i, headlineWeight) ==
  IF i > Len(terms) THEN 0
  ELSE occurrences(toLowerCase(articleText(doc)), terms[i])
       + headlineWeight * occurrences(toLowerCase(doc.headline), terms[i])
       + weightedOccurrences(doc, terms, i + 1, headlineWeight)

variationsOf(entity) ==
  KNOWN_ENTITIES[CHOOSE k \in 1..Len(KNOWN_ENTITIES) : KNOWN_ENTITIES[k].entity = entity].variations

isPrefixOf(p, s) == Len(p) <= Len(s) /\ SubSeq(s, 1, Len(p)) = p

\* the shorter string is at least 80% as long as the longer one
coversFourFifths(shorter, longer) == Len(shorter) * 10 >= Len(longer) * 8

\* an exact term, or a multi-word variant contained in the terms joined by spaces
isTermOrPhrase(variation, terms) ==
  \/ \E i \in 1..Len(terms) : terms[i] = variation
  \/ (\E c \in 1..Len(variation) : variation[c] = " ") /\ includes(join(terms, << " " >>), variation)

\* a term of 4 or more characters that begins the variant and covers 80% of it
isNearlyWholeVariant(variation, terms) ==
  \E i \in 1..Len(terms) :
     /\ Len(terms[i]) >= 4
     /\ isPrefixOf(terms[i], variation)
     /\ coversFourFifths(terms[i], variation)

matchedOnlyWhen(Rule(_, _)) ==
  \A m \in 1..Len(unit.out.entityCheck.matchedEntities) :
     \E v \in 1..Len(variationsOf(unit.out.entityCheck.matchedEntities[m])) :
        Rule(variationsOf(unit.out.entityCheck.matchedEntities[m])[v], unit.out.queryTerms)

symmetricRule(variation, terms) ==
  \/ isTermOrPhrase(variation, terms)
  \/ isNearlyWholeVariant(variation, terms)
  \/ \E i \in 1..Len(terms) :
        /\ Len(terms[i]) >= 4
        /\ isPrefixOf(variation, terms[i])
        /\ coversFourFifths(variation, terms[i])

oneSidedRule(variation, terms) ==
  \/ isTermOrPhrase(variation, terms)
  \/ isNearlyWholeVariant(variation, terms)
  \/ \E i \in 1..Len(terms) :
        /\ Len(terms[i]) >= 4
        /\ Len(variation) >= 4
        /\ isPrefixOf(variation, terms[i])

isListedIndicator(term) ==
  \E k \in 1..Len(OFF_TOPIC_INDICATORS) : OFF_TOPIC_INDICATORS[k] = term

\* C22: when no known entity matched, the query is flagged off-topic exactly
\* when at least one query term is itself an entry of the off-topic indicator
\* list, and the reported off-topic terms are exactly those terms.
C22_OffTopicTermsAreListEntries ==
  (GuardrailCalled /\ ~ unit.out.entityCheck.hasKnownEntity)
  => /\ unit.out.offTopicCheck.offTopicTerms = filter(unit.out.queryTerms, isListedIndicator)
     /\ unit.out.offTopicCheck.isOffTopic
          <=> \E i \in 1..Len(unit.out.queryTerms) : isListedIndicator(unit.out.queryTerms[i])

\* C23: for every query the retriever and the guardrail extract the same list
\* of query terms, the lowercase terms longer than 2 characters plus the
\* allow-listed two-letter terms; a query that is only an allow-listed
\* two-letter term gives the retriever a term.
C23_RetrieverAndGuardrailShareTerms ==
  (unit.fn = "retrieveRelevantContent" /\ unit.done)
  => /\ retrievalTerms(unit.query) = extractQueryTerms(unit.query)
     /\ (extractQueryTerms(unit.query) # << >> /\ ~ unit.out.threw
          /\ unit.maxResults > 0 /\ unit.companies = << >>)
        => \/ unit.out.articles # << >>
           \/ \A d \in 1..Len(unit.data) :
                 termScore(unit.data[d], extractQueryTerms(unit.query), 1) = 0

\* C24: retrieveRelevantContent over the static corpus never raises: for an
\* empty query or a query of terms of 2 characters or fewer it returns an empty
\* list, and for every other query string, terms with punctuation or
\* regular-expression metacharacters included, it returns a list.
C24_RetrievalNeverRaises ==
  (unit.fn = "retrieveRelevantContent" /\ unit.done /\ unit.data = Corpus)
  => /\ ~ unit.out.threw
     /\ retrievalTerms(unit.query) = << >> => unit.out.articles = << >>

ReportsFullTelemetry ==
  /\ pc = "done"
  /\ "pipeline" \in DOMAIN response
  /\ "finalSourcesUsed" \in DOMAIN response.pipeline

Min(a, b) == IF a <= b THEN a ELSE b

\* C26: in every response with the full pipeline telemetry, retrieved is at
\* most 2 * maxSources, afterCredibilityFilter at most retrieved,
\* afterDeduplication + duplicatesRemoved equals afterCredibilityFilter, and
\* finalSourcesUsed is at most min(afterDeduplication, maxSources) and equals
\* the number of returned sources.
C26_StageCountsConsistent ==
  ReportsFullTelemetry
  => /\ response.pipeline.retrieved <= 2 * maxSourcesOf(req)
     /\ response.pipeline.afterCredibilityFilter <= response.pipeline.retrieved
     /\ response.pipeline.afterDeduplication + response.pipeline.duplicatesRemoved
          = response.pipeline.afterCredibilityFilter
     /\ response.pipeline.finalSourcesUsed
          <= Min(response.pipeline.afterDeduplication, maxSourcesOf(req))
     /\ response.pipeline.finalSourcesUsed = Len(response.sources)

idsOf(list) == [i \in 1..Len(list) |-> list[i].id]

\* C27: for maxSources >= 1, whenever the route invokes the guardrail the
\* final document set is non-empty (the deduplication of a non-empty filtered
\* set keeps a document), the set the guardrail evaluates is the set handed to
\* the summarizer, and the guardrail's reason is never 'No documents retrieved'.
C27_GuardrailSeesNonEmptyFinalSet ==
  (GuardrailRan /\ maxSourcesOf(req) >= 1)
  => /\ Len(credibleSources) >= 1
     /\ Len(dedupedSources) >= 1
     /\ Len(finalSources) >= 1
     /\ idsOf(relevanceResult.docScores) = idsOf(finalSources)
     /\ SummarizerInvoked => llmInput = finalSources
     /\ relevanceResult.reason.text # REASON_NO_DOCUMENTS

C27_Witness ==
  /\ GuardrailRan
  /\ maxSourcesOf(req) >= 1
  /\ SummarizerInvoked
  /\ Len(finalSources) >= 1
  /\ Len(dedupedSources) > Len(finalSources)
  /\ llmInput = finalSources

\* C28: the fifth branch of the decision (no document scoring above 0.3 and a
\* mean relevance below 0.1) is never taken, because the fourth branch takes
\* every mean below 0.15: the reason 'Insufficient relevant documents found'
\* is produced for no query and no document set.
C28_InsufficientBranchIsDead ==
  GuardrailCalled
  => /\ unit.out.reason.text # REASON_INSUFFICIENT
     /\ (/\ ~ documentSetIsEmpty(unit.documents)
         /\ ~ unit.out.entityCheck.hasKnownEntity
         /\ ~ tagsOverlapQuery(unit.query, unit.documents.value)
         /\ ~ unit.out.offTopicCheck.isOffTopic
         /\ unit.out.relevantDocCount < 1
         /\ unit.out.averageRelevance.num * 10 < unit.out.averageRelevance.den)
        => unit.out.reason.text = REASON_LOW

C28_Witness ==
  /\ GuardrailCalled
  /\ ~ documentSetIsEmpty(unit.documents)
  /\ ~ unit.out.entityCheck.hasKnownEntity
  /\ ~ unit.out.offTopicCheck.isOffTopic
  /\ unit.out.relevantDocCount < 1
  /\ unit.out.averageRelevance.num * 10 < unit.out.averageRelevance.den
  /\ unit.out.reason.text = REASON_LOW

\* the response to the request when no other request is in progress
responseAlone(body, settled) ==
  LET run == runPipeline(body)
  IN  IF run.next = "done" THEN run.response ELSE resumedResponse(body, run, settled)

answersAsAlone(request) ==
  request.pc = "done" => request.response = responseAlone(request.req, request.completion)

DashboardRunning == unit.fn = "App"

HISTORY_LIMIT == 10

lastOf(list, n) == IF Len(list) > n THEN SubSeq(list, Len(list) - n + 1, Len(list)) ELSE list

\* C29: after any sequence of analyze requests the sentiment history holds at
\* most 10 entries, the entries of the most recent responses that carried a
\* sentiment score, in arrival order; a failed request and a response without
\* an analysis add no entry and remove none.
C29_HistoryHoldsLastTenScored ==
  DashboardRunning
  => /\ Len(unit.sentimentHistory) <= HISTORY_LIMIT
     /\ unit.sentimentHistory = lastOf(unit.scored, HISTORY_LIMIT)

C29_Witness ==
  /\ DashboardRunning
  /\ Len(unit.scored) > HISTORY_LIMIT
  /\ Len(unit.sentimentHistory) = HISTORY_LIMIT
  /\ unit.sentimentHistory[1] # unit.sentimentHistory[2]
  /\ unit.sentimentHistory = lastOf(unit.scored, HISTORY_LIMIT)
  /\ unit.path = "catch"
  /\ ~ unit.isLoading

AtMostOneInFlight ==
  DashboardRunning
  => /\ Len(unit.inFlight) <= 1
     /\ unit.isLoading => Len(unit.inFlight) = 1

FailureShown ==
  (DashboardRunning /\ unit.path = "catch" /\ ~ unit.isLoading)
  => /\ unit.error # "null"
     /\ unit.result = NoResult

NoSubmitWhileLoading ==
  (DashboardRunning /\ unit.isLoading) => Len(unit'.inFlight) <= Len(unit.inFlight)

\* C30: every started analyze request eventually returns the loading flag to
\* false, whether it succeeds or fails; while the flag is true the query panel
\* starts no further request, so at most one request is in flight; when a
\* request fails the error is set and the stored result is cleared.
C30_LoadingEndsAndGuardsSubmit ==
  /\ [](AtMostOneInFlight /\ FailureShown)
  /\ [][NoSubmitWhileLoading]_vars
  /\ (DashboardRunning /\ unit.isLoading) ~> (DashboardRunning /\ ~ unit.isLoading)

C30_Witness ==
  /\ DashboardRunning
  /\ unit.path = "catch"
  /\ ~ unit.isLoading
  /\ unit.error = "Failed to fetch"
  /\ unit.result = NoResult
  /\ Len(unit.sentimentHistory) >= 1
====
